---- MODULE Spec2Model ----
(***************************************************************************)
(* Execution plane of the link checker: the Redis priority queue and its   *)
(* worker loops (QueueService), the BullMQ batch path (BullMQService and   *)
(* ManualLinksController.startLinkAnalysis), the sheet run                 *)
(* (GoogleSheetsService.analyzeGoogleSheet), the link rows and the events  *)
(* published to a project's room.                                          *)
(*                                                                         *)
(* Every await of the source is an interleaving point: an action is the    *)
(* code between two awaits of one handler.  Redis and the database execute *)
(* one command at a time, so one command is one atomic step.               *)
(***************************************************************************)
EXTENDS Integers, Sequences, FiniteSets, TLC

\* ------------------------------------------------------------------ bounds
\* Worker loops draining the Redis queue.  Each one is a worker container of
\* its own (docker-compose --scale worker=N) run with WORKER_CONCURRENT_LINKS=1.
NumWorkers == 2
\* Link rows of the batch project whose jobs those workers drain.
NumLinks == 2
\* Link rows and worker loops of the lease-order scenario.
LeaseLinks == 2
\* The clock, in ticks of 10^12 ms (TLC integers are 32 bits wide).
MaxTime == 11
\* BullMQ batch path: link rows of the project, distinct URLs they may carry,
\* processor slots of the Worker, and checkLinks requests in one behaviour.
BullLinks == 2
BullUrls == 2
BullWorkers == 2
MaxRuns == 2
\* Sheet run: links read from the sheet, worker loops, analyzeGoogleSheet calls.
SheetLinks == 2
SheetWorkers == 1
MaxSheetRuns == 1
\* Scheduler: sheets, scheduleSheet / cancelSheet calls, timers created and
\* analyzeGoogleSheet runs started in one behaviour.
NumSheets == 1
MaxCalls == 2
MaxTimers == 2
MaxFires == 2
\* Worker container restarts in one behaviour.
MaxRestarts == 1
\* Redis commands that fail in one behaviour.
MaxFaults == 1
\* analyzeLink calls
MaxAnalyses == 2
\* anchors of a page that match the target
MaxAnchors == 2
\* column letters A.. and letters per column name
MaxLetter == 6
MaxColLen == 2
\* createGoogleSheet / updateGoogleSheet requests
MaxRequests == 3
\* analyzeGoogleSheet runs of one sheet that overlap
MaxOverlap == 2
\* URLs of the sheet those runs read
RunLinks == 1
MaxSheetRows == 3
MaxScheduledRuns == 2
MaxRetryAttempts == 3
ProjectSheets == 2

\* --------------------------------------------------------- program constants
\* calculateScore's weight of one priority level, 1e13 ms, in clock ticks.
ScoreWeight == 10
\* BullMQService.MAX_ATTEMPTS (QueueItem.maxAttempts is 3 as well)
MAX_ATTEMPTS == 3
\* defaultJobOptions.removeOnComplete: the completed jobs BullMQ keeps
REMOVE_ON_COMPLETE == 100
RETRY_ATTEMPTS == 2

Plans == {"enterprise", "pro", "starter", "free"}
LinkTypes == {"manual", "google_sheets"}
EventKinds == {"link_updated", "analysis_started", "analysis_completed",
               "analysis_error", "sheets_link_updated", "sheets_analysis_started",
               "sheets_analysis_progress", "sheets_analysis_completed",
               "sheets_analysis_error"}
Projects == {1, 2}
NoItem == [id |-> 0]
NoTask == [none |-> TRUE]
NoResponse == [none |-> TRUE]

VARIABLES
    now,         \* Date.now(), in clock ticks
    users,       \* users table: user id -> subscription_plan
    links,       \* manual_links table: link id -> row
    queue,       \* zset link_analysis_priority_queue: the set of its members
    processing,  \* list link_analysis_processing, head first
    results,     \* list link_analysis_results, head first
    wpc,         \* worker loop: where it is in processNextItem / initialize
    witem,       \* worker loop: queueItem
    wres,        \* worker loop: analysisResult
    wseen,       \* worker loop: what the completion check has read so far
    wsnap,       \* worker start: processingItems of clearProcessingQueue, those left to add
    emitted,     \* SocketService.emitToProject calls: <<project, event>> -> count
    nextId,      \* next fresh QueueItem.id
    entered,     \* history: every item addToQueue has added
    analysed,    \* history: item id -> number of times analyzeLink ran for it
    restarts,    \* history: worker container restarts so far
    faults,      \* history: failed Redis and database calls so far
    bjobs,       \* BullMQ queue link-analysis: jobId -> job
    bdone,       \* BullMQ: the completed jobs kept, newest first
    bseq,        \* BullMQ: jobs added so far
    bpc,         \* BullMQ processor slot: where it is in processLinkAnalysisJob
    bjob,        \* BullMQ processor slot: job.id
    bres,        \* BullMQ processor slot: result of the attempt
    bseen,       \* BullMQ processor slot: what the completion check has read so far
    ppc,         \* startLinkAnalysis: where it is
    plinks,      \* startLinkAnalysis: links, the rows checkLinks read
    puser,       \* startLinkAnalysis: userId, the user of the checkLinks request
    pidx,        \* startLinkAnalysis: index of the next link to enqueue
    padd,        \* history: what the last queue.add found under its jobId
    runs,        \* history: project -> startLinkAnalysis calls so far
    writes,      \* history: link id -> OK/Problem writes since the last reset
    spc,         \* analyzeGoogleSheet: where it is
    slinks,      \* analyzeGoogleSheet: createdLinks
    sidx,        \* analyzeGoogleSheet: index into createdLinks
    sruns,       \* history: analyzeGoogleSheet calls so far
    sheetsDb,    \* google_sheets table: sheet id -> [status, interval]
    tasks,       \* SchedulerService.tasks: sheet id -> ScheduledTask object, 0 for none
    objs,        \* the ScheduledTask objects created so far: [sheet, interval, timerId]
    tmrs,        \* the timers created so far: timer id -> sheet id
    armed,       \* ids of the timers that are armed
    fires,       \* analyzeGoogleSheet runs in flight: [id, kind, sheet, task, pc]
    pending,     \* scheduleSheet calls waiting for cancelSheet's database write
    initq,       \* SchedulerService.initialize: activeSheets still to schedule
    initpc,      \* SchedulerService.initialize: where it is
    isInitialized,
    isShuttingDown,
    ncalls,      \* history: scheduleSheet / cancelSheet / endpoint calls so far
    nfires,      \* history: analyzeGoogleSheet runs started so far
    cancelled,   \* history: sheet id -> cancelled and not scheduled since
    reported,    \* history: run id -> sheets_analysis_error events for its failure
    apc,         \* LinkAnalyzer.analyzeLink: where it is
    abrowser,    \* analyzeLink: the browser it launched is open
    acode,       \* analyzeLink: responseCode
    ares,        \* analyzeLink: analysisResult
    averdict,    \* analyzeLink: the LinkAnalysisResult it returned
    apath,       \* history: the path that produced the verdict
    acalls,      \* history: analyzeLink calls so far
    fpc,         \* a function under test: which of its callers have run
    fin,         \* a function under test: its arguments
    fout,        \* a function under test: what each caller got back
    ranges,      \* google_sheets table: sheet id -> [result_range_start, result_range_end]
    nreq,        \* history: createGoogleSheet / updateGoogleSheet requests so far
    aruns,       \* concurrent analyzeGoogleSheet runs: run id -> [pc, createdLinks, idx]
    ajobs,       \* queue items the runs added and no worker has saved: [run, linkId]
    wlog,        \* history: the row updates that hit a row: [run, row]
    madeBy,      \* history: row id -> the run whose createMany made it
    nextRow,     \* the next gen_random_uuid() of manual_links
    jbull,       \* BullMQ jobs waiting for processLinkAnalysisJob: job.data
    jitems,      \* Redis queue items waiting for processNextItem
    jleft,       \* history: the jobs and items that left their queue
    jevents,     \* history: the link update events emitted: [event, linkId of the job, status]
    jverdicts,   \* history: [linkId, result] for each verdict LinkAnalyzer returned
    tclock,      \* Date.now() of the scheduler process, in minutes
    ttask,       \* SchedulerService.tasks entry of the sheet: [interval, nextRun, timerId, runCount]
    ttimers,     \* setTimeout handles: timer id -> [due, armed]
    tsheet,      \* google_sheets row of the sheet: [status, schedule_interval, next_scan]
    tpc,         \* executeScheduledAnalysis: where it is
    dpc,         \* scrapePageWithRetry: where it is
    dmax,        \* ScrapeDoService.RETRY_ATTEMPTS
    dkey,        \* ScrapeDoService.isAvailable(): an API key is configured
    dattempt,    \* scrapePageWithRetry: attempt
    dlog,        \* history: the proxy requests and the waits of the call, in order
    dret         \* scrapePageWithRetry: what it returned

\* only the Redis queue and its worker loops use these
qOnly == <<now, users, queue, processing, results, wpc, witem, wres, wseen, wsnap,
           nextId, entered, analysed, restarts>>
\* only the BullMQ batch path uses these
bOnly == <<bjobs, bdone, bseq, bpc, bjob, bres, bseen, ppc, plinks, puser, pidx, padd, runs, writes>>

\* only analyzeGoogleSheet uses these
sOnly == <<spc, slinks, sidx, sruns>>

\* only SchedulerService and the sheet endpoints use these
hOnly == <<sheetsDb, tasks, objs, tmrs, armed, fires, pending, initq, initpc, isInitialized,
           isShuttingDown, ncalls, nfires, cancelled, reported>>

\* only LinkAnalyzer.analyzeLink uses these
aOnly == <<apc, abrowser, acode, ares, averdict, apath, acalls>>

\* only the calls of the pure helpers use these
fOnly == <<fpc, fin, fout>>

\* only createGoogleSheet and updateGoogleSheet use these
gOnly == <<ranges, nreq>>

\* only the concurrent sheet runs use these
rOnly == <<aruns, ajobs, wlog, madeBy, nextRow>>

\* only the per-job view of the two workers uses these
jOnly == <<jbull, jitems, jleft, jevents, jverdicts>>

\* only the timed view of one sheet's schedule uses these
tOnly == <<tclock, ttask, ttimers, tsheet, tpc>>

\* only scrapePageWithRetry uses these
dOnly == <<dpc, dmax, dkey, dattempt, dlog, dret>>

exceptQ == <<bOnly, sOnly, hOnly, aOnly, fOnly, gOnly, rOnly, jOnly, tOnly, dOnly>>
exceptB == <<qOnly, sOnly, hOnly, aOnly, fOnly, gOnly, rOnly, jOnly, tOnly, dOnly>>
exceptH == <<qOnly, bOnly, sOnly, aOnly, fOnly, gOnly, rOnly, jOnly, tOnly, dOnly, links>>
exceptA == <<qOnly, bOnly, sOnly, hOnly, fOnly, gOnly, rOnly, jOnly, tOnly, dOnly, links, emitted, faults>>
exceptF == <<qOnly, bOnly, sOnly, hOnly, aOnly, gOnly, rOnly, jOnly, tOnly, dOnly, links, emitted, faults>>
exceptG == <<qOnly, bOnly, sOnly, hOnly, aOnly, fOnly, rOnly, jOnly, tOnly, dOnly, links, emitted, faults>>
exceptR == <<qOnly, bOnly, sOnly, hOnly, aOnly, fOnly, gOnly, jOnly, tOnly, dOnly, emitted, faults>>
exceptT == <<qOnly, bOnly, sOnly, hOnly, aOnly, fOnly, gOnly, rOnly, jOnly, dOnly, links, emitted, faults>>
exceptD == <<qOnly, bOnly, sOnly, hOnly, aOnly, fOnly, gOnly, rOnly, jOnly, tOnly, links, emitted, faults>>
exceptJ == <<now, users, queue, processing, wpc, witem, wres, wseen, wsnap, nextId, entered,
             analysed, restarts, bOnly, sOnly, hOnly, aOnly, fOnly, gOnly, rOnly, tOnly, dOnly>>

vars == <<qOnly, bOnly, sOnly, hOnly, aOnly, fOnly, gOnly, rOnly, jOnly, tOnly, dOnly, links, emitted, faults>>

Workers == DOMAIN wpc

\* ----------------------------------------------------------------- helpers
Remove1(s, x) ==
    \* lRem(key, 1, x): drops the first element equal to x, from the head
    LET idx == {i \in 1..Len(s) : s[i] = x}
        RECURSIVE Min(_)
        Min(S) == CHOOSE m \in S : \A n \in S : m <= n
    IN  IF idx = {} THEN s
        ELSE LET k == Min(idx) IN [i \in 1..(Len(s) - 1) |-> IF i < k THEN s[i] ELSE s[i + 1]]

Range(s) == {s[i] : i \in 1..Len(s)}

Emit(ev, p, e) == [ev EXCEPT ![<<p, e>>] = @ + 1]

\* QueueService.getUserPriority
getUserPriority(plan) ==
    CASE plan = "enterprise" -> 1
      [] plan = "pro" -> 2
      [] plan = "starter" -> 3
      [] OTHER -> 4

\* A sign slip in the score: the priority term added instead of subtracted.
calculateScoreSignSlip(priority, createdAt) == priority * ScoreWeight - createdAt

\* QueueService.calculateScore: createdAt is a Date when addToQueue calls it and
\* the ISO string of the same millisecond when clearProcessingQueue does; both
\* give the same getTime().
calculateScore(priority, createdAt) == (0 - priority) * ScoreWeight - createdAt

Score(item) == calculateScore(item.priority, item.createdAt)

\* redisClient.zPopMax: the members with the greatest score (Redis breaks a tie
\* of scores by the member string, which starts with the random id).
zPopMax(q) == {a \in q : \A b \in q : Score(b) <= Score(a)}

OfProject(items, p, t) == {i \in items : i.projectId = p /\ i.type = t}

Unprocessed(p, t) ==
    {l \in DOMAIN links : links[l].project = p /\ links[l].type = t
                          /\ links[l].status \in {"pending", "checking"}}

\* ------------------------------------------------------------ QueueService
\* addToQueue(type, userId, projectId, url, targetDomain, linkId): the caller
\* passes a link row; one job per link row, in row order.  d is the time that
\* has passed since the previous call read the clock (new Date()).
addToQueue(u, l, d) ==
    /\ now + d <= MaxTime
    /\ now' = now + d
    /\ LET item == [id |-> nextId, type |-> links[l].type, userId |-> u,
                    projectId |-> links[l].project, linkId |-> l, url |-> links[l].url,
                    priority |-> getUserPriority(users[u]), createdAt |-> now',
                    attempts |-> 0]
       IN  /\ queue' = queue \cup {item}
           /\ entered' = entered \cup {item}
           /\ analysed' = [i \in 1..nextId |-> IF i = nextId THEN 0 ELSE analysed[i]]
    /\ nextId' = nextId + 1

\* A caller of addToQueue outside a run.
Enqueue(u, l, d) ==
    /\ addToQueue(u, l, d)
    /\ UNCHANGED <<users, links, processing, results, wpc, witem, wres, wseen,
                   emitted, restarts, faults, wsnap, exceptQ>>

\* processNextItem: zPopMax (an empty queue returns at once)
WPop(w) ==
    /\ wpc[w] = "idle"
    /\ \E a \in zPopMax(queue) :
         /\ queue' = queue \ {a}
         /\ witem' = [witem EXCEPT ![w] = a]
    /\ wpc' = [wpc EXCEPT ![w] = "popped"]
    /\ UNCHANGED <<now, users, links, processing, results, wres, wseen, emitted,
                   nextId, entered, analysed, restarts, faults, wsnap, exceptQ>>

\* processNextItem: lPush(PROCESSING_KEY, item)
WLPush(w) ==
    /\ wpc[w] = "popped"
    /\ processing' = <<witem[w]>> \o processing
    /\ wpc' = [wpc EXCEPT ![w] = "leased"]
    /\ UNCHANGED <<now, users, links, queue, results, witem, wres, wseen, emitted,
                   nextId, entered, analysed, restarts, faults, wsnap, exceptQ>>

\* analyzeLink: LinkAnalyzer.analyzeLink for a manual item (a verdict, or an
\* exception that analyzeLink turns into success = false); a google_sheets item
\* gets the fixed result {status: 'OK'}.
WAnalyse(w) ==
    /\ wpc[w] = "leased"
    /\ \E r \in {[success |-> TRUE, status |-> "OK"],
                 [success |-> TRUE, status |-> "Problem"],
                 [success |-> FALSE, status |-> "none"]} :
         /\ witem[w].type = "google_sheets" => r = [success |-> TRUE, status |-> "OK"]
         /\ wres' = [wres EXCEPT ![w] = r]
    /\ analysed' = [analysed EXCEPT ![witem[w].id] = @ + 1]
    /\ wpc' = [wpc EXCEPT ![w] = "analysed"]
    /\ UNCHANGED <<now, users, links, queue, processing, results, witem, wseen,
                   emitted, nextId, entered, restarts, faults, wsnap, exceptQ>>

\* processNextItem: lRem(PROCESSING_KEY, 1, item)
WLRem(w) ==
    /\ wpc[w] = "analysed"
    /\ processing' = Remove1(processing, witem[w])
    /\ wpc' = [wpc EXCEPT ![w] = "removed"]
    /\ UNCHANGED <<now, users, links, queue, results, witem, wres, wseen, emitted,
                   nextId, entered, analysed, restarts, faults, wsnap, exceptQ>>

\* saveResult: ManualLinkModel.update for a manual item, then lPush and lTrim
\* of RESULTS_KEY
WSave(w) ==
    /\ wpc[w] = "removed"
    /\ links' = IF witem[w].type = "manual" /\ witem[w].linkId \in DOMAIN links
                THEN [links EXCEPT ![witem[w].linkId].status =
                                       IF wres[w].success THEN "OK" ELSE "Problem"]
                ELSE links
    /\ results' = SubSeq(<<witem[w].id>> \o results, 1,
                         IF Len(results) + 1 > 1000 THEN 1000 ELSE Len(results) + 1)
    /\ wpc' = [wpc EXCEPT ![w] = "saved"]
    /\ UNCHANGED <<now, users, queue, processing, witem, wres, wseen, emitted,
                   nextId, entered, analysed, restarts, faults, wsnap, exceptQ>>

UpdateEvent(t) == IF t = "manual" THEN "link_updated" ELSE "sheets_link_updated"
CompletedEvent(t) == IF t = "manual" THEN "analysis_completed" ELSE "sheets_analysis_completed"

\* sendRealTimeUpdate: emit the link update, then checkProjectAnalysisCompletion
\* reads the queue (zRange)
WEmitUpdate(w) ==
    /\ wpc[w] = "saved"
    /\ emitted' = Emit(emitted, witem[w].projectId, UpdateEvent(witem[w].type))
    /\ wseen' = [wseen EXCEPT ![w] = OfProject(queue, witem[w].projectId, witem[w].type) # {}]
    /\ wpc' = [wpc EXCEPT ![w] = "chk_processing"]
    /\ UNCHANGED <<now, users, links, queue, processing, results, witem, wres,
                   nextId, entered, analysed, restarts, faults, wsnap, exceptQ>>

\* checkProjectAnalysisCompletion: lRange(PROCESSING_KEY)
WCheckProcessing(w) ==
    /\ wpc[w] = "chk_processing"
    /\ LET busy == wseen[w] \/ OfProject(Range(processing), witem[w].projectId, witem[w].type) # {}
       IN  /\ wseen' = [wseen EXCEPT ![w] = busy]
           /\ wpc' = [wpc EXCEPT ![w] = IF busy THEN "idle" ELSE "chk_rows"]
           /\ witem' = [witem EXCEPT ![w] = IF busy THEN NoItem ELSE @]
    /\ UNCHANGED <<now, users, links, queue, processing, results, wres, emitted,
                   nextId, entered, analysed, restarts, faults, wsnap, exceptQ>>

\* checkProjectAnalysisCompletion: findByProjectIdAndType, and the completed
\* event when no row is pending or checking
WCheckRows(w) ==
    /\ wpc[w] = "chk_rows"
    /\ emitted' = IF Unprocessed(witem[w].projectId, witem[w].type) = {}
                  THEN Emit(emitted, witem[w].projectId, CompletedEvent(witem[w].type))
                  ELSE emitted
    /\ wpc' = [wpc EXCEPT ![w] = "idle"]
    /\ witem' = [witem EXCEPT ![w] = NoItem]
    /\ UNCHANGED <<now, users, links, queue, processing, results, wres, wseen,
                   nextId, entered, analysed, restarts, faults, wsnap, exceptQ>>

\* ------------------------------------------------------------ BullMQService
\* The BullMQ library is not part of the repository; what the code relies on:
\* queue.add with a jobId that exists in the queue (waiting, active or kept after
\* completion) is ignored; the Worker takes waiting jobs by priority, then in
\* the order they were added; a job is active while its processor runs and is
\* completed when the processor returns; a processor that throws is retried
\* while attemptsMade + 1 < attempts and is moved to failed after that.
JobId(type, url) == <<type, url>>

\* queue.add without dedup: the job is stored again under the id.
QueueAddOverwrite(jobs, id, job) ==
    [j \in DOMAIN jobs \cup {id} |-> IF j = id THEN job ELSE jobs[j]]

\* addLinkAnalysisJob: linkAnalysisQueue.add('analyze-link', jobData,
\* {priority, jobId: jobData.id})
QueueAdd(jobs, id, job) ==
    IF id \in DOMAIN jobs THEN jobs
    ELSE [j \in DOMAIN jobs \cup {id} |-> IF j = id THEN job ELSE jobs[j]]

\* BullMQService.getUserPriority
bullUserPriority(userId) == 1

InState(st) == {j \in DOMAIN bjobs : bjobs[j].state = st}
BSlots == DOMAIN bpc

BOfProject(ids, p, t) == {j \in ids : bjobs[j].projectId = p /\ bjobs[j].type = t}

\* ManualLinkModel.findByProjectId: every row of the project, newest first
findByProjectId(p) ==
    LET ids == {l \in DOMAIN links : links[l].project = p}
        RECURSIVE Desc(_)
        Desc(S) == IF S = {} THEN <<>>
                   ELSE LET m == CHOOSE x \in S : \A y \in S : y <= x
                        IN  <<m>> \o Desc(S \ {m})
    IN  Desc(ids)

\* checkLinks: reads the rows of the project and starts startLinkAnalysis
\* without awaiting it
PCheckLinks(p) ==
    /\ ppc = "idle"
    /\ runs[p] < MaxRuns
    /\ findByProjectId(p) # <<>>
    /\ plinks' = findByProjectId(p)
    /\ \E u \in DOMAIN users : puser' = u
    /\ pidx' = 1
    /\ runs' = [runs EXCEPT ![p] = @ + 1]
    /\ ppc' = "reset"
    /\ UNCHANGED <<bjobs, bdone, bseq, bpc, bjob, bres, bseen, padd, writes,
                   links, emitted, faults, exceptB>>

PProject == links[plinks[1]].project

\* startLinkAnalysis: resetAnalysisStatus(projectId, 'manual')
PReset ==
    /\ ppc = "reset"
    /\ links' = [l \in DOMAIN links |->
                    IF links[l].project = PProject /\ links[l].type = "manual"
                    THEN [links[l] EXCEPT !.status = "pending"] ELSE links[l]]
    /\ writes' = [l \in DOMAIN writes |->
                    IF links[l].project = PProject /\ links[l].type = "manual"
                    THEN 0 ELSE writes[l]]
    /\ ppc' = "start"
    /\ UNCHANGED <<bjobs, bdone, bseq, bpc, bjob, bres, bseen, plinks, puser, pidx, padd, runs,
                   emitted, faults, exceptB>>

\* startLinkAnalysis: resetAnalysisStatus throws; the catch emits analysis_error
PResetFail ==
    /\ ppc = "reset"
    /\ faults < MaxFaults
    /\ faults' = faults + 1
    /\ emitted' = Emit(emitted, PProject, "analysis_error")
    /\ ppc' = "idle"
    /\ UNCHANGED <<bjobs, bdone, bseq, bpc, bjob, bres, bseen, plinks, puser, pidx, padd, runs,
                   writes, links, exceptB>>

\* startLinkAnalysis: emitToProject(projectId, 'analysis_started')
PEmitStarted ==
    /\ ppc = "start"
    /\ emitted' = Emit(emitted, PProject, "analysis_started")
    /\ ppc' = "adding"
    /\ UNCHANGED <<bjobs, bdone, bseq, bpc, bjob, bres, bseen, plinks, puser, pidx, padd, runs,
                   writes, links, faults, exceptB>>

\* startLinkAnalysis: one turn of the loop,
\* addLinkAnalysisJob('manual', userId, projectId, link.url, link.target_domain, link.id)
PAdd ==
    /\ ppc = "adding"
    /\ LET l == plinks[pidx]
           id == JobId("manual", links[l].url)
           job == [state |-> "waiting", type |-> "manual", projectId |-> PProject,
                   userId |-> puser, linkId |-> l, url |-> links[l].url,
                   priority |-> bullUserPriority(puser),
                   attemptsMade |-> 0, attempts |-> MAX_ATTEMPTS, seq |-> bseq + 1,
                   returnvalue |-> [success |-> TRUE, status |-> "none"]]
       IN  /\ bjobs' = QueueAdd(bjobs, id, job)
           /\ padd' = [id |-> id, projectId |-> PProject,
                       found |-> IF id \in DOMAIN bjobs THEN bjobs[id].state ELSE "none"]
    /\ bseq' = bseq + 1
    /\ pidx' = pidx + 1
    /\ ppc' = IF pidx = Len(plinks) THEN "idle" ELSE "adding"
    /\ UNCHANGED <<bdone, bpc, bjob, bres, bseen, plinks, puser, runs, writes,
                   links, emitted, faults, exceptB>>

\* startLinkAnalysis: addLinkAnalysisJob throws (queue not initialised, Redis
\* down); the catch emits analysis_error and the loop ends
PAddFail ==
    /\ ppc = "adding"
    /\ faults < MaxFaults
    /\ faults' = faults + 1
    /\ emitted' = Emit(emitted, PProject, "analysis_error")
    /\ ppc' = "idle"
    /\ UNCHANGED <<bjobs, bdone, bseq, bpc, bjob, bres, bseen, plinks, puser, pidx, padd, runs,
                   writes, links, exceptB>>

\* BullMQ Worker: the next waiting job becomes active in a free processor slot
BFetch(w) ==
    /\ bpc[w] = "idle"
    /\ \E j \in InState("waiting") :
         /\ \A k \in InState("waiting") :
               bjobs[j].priority < bjobs[k].priority
               \/ (bjobs[j].priority = bjobs[k].priority /\ bjobs[j].seq <= bjobs[k].seq)
         /\ bjobs' = [bjobs EXCEPT ![j].state = "active"]
         /\ bjob' = [bjob EXCEPT ![w] = j]
    /\ bpc' = [bpc EXCEPT ![w] = "active"]
    /\ UNCHANGED <<bdone, bseq, bres, bseen, ppc, plinks, puser, pidx, padd, runs, writes,
                   links, emitted, faults, exceptB>>

\* processLinkAnalysisJob: LinkAnalyzer.analyzeLink returns a verdict or throws
BAnalyse(w) ==
    /\ bpc[w] = "active"
    /\ \E r \in {[success |-> TRUE, status |-> "OK"],
                 [success |-> TRUE, status |-> "Problem"],
                 [success |-> FALSE, status |-> "none"]} :
         /\ bres' = [bres EXCEPT ![w] = r]
         /\ bpc' = [bpc EXCEPT ![w] = IF r.success THEN "analysed" ELSE "catch"]
    /\ UNCHANGED <<bjobs, bdone, bseq, bjob, bseen, ppc, plinks, puser, pidx, padd, runs, writes,
                   links, emitted, faults, exceptB>>

\* processLinkAnalysisJob: ManualLinkModel.update(linkId, verdict) for a manual
\* job with a linkId
BUpdateRow(w) ==
    /\ bpc[w] = "analysed"
    /\ LET l == bjobs[bjob[w]].linkId
           hit == bjobs[bjob[w]].type = "manual" /\ l \in DOMAIN links
       IN  /\ links' = IF hit THEN [links EXCEPT ![l].status = bres[w].status] ELSE links
           /\ writes' = IF hit THEN [writes EXCEPT ![l] = @ + 1] ELSE writes
    /\ bpc' = [bpc EXCEPT ![w] = "updated"]
    /\ UNCHANGED <<bjobs, bdone, bseq, bjob, bres, bseen, ppc, plinks, puser, pidx, padd, runs,
                   emitted, faults, exceptB>>

\* processLinkAnalysisJob: ManualLinkModel.update throws; the catch block runs
BUpdateRowFail(w) ==
    /\ bpc[w] = "analysed"
    /\ faults < MaxFaults
    /\ faults' = faults + 1
    /\ bres' = [bres EXCEPT ![w] = [success |-> FALSE, status |-> "none"]]
    /\ bpc' = [bpc EXCEPT ![w] = "catch"]
    /\ UNCHANGED <<bjobs, bdone, bseq, bjob, bseen, ppc, plinks, puser, pidx, padd, runs, writes,
                   links, emitted, exceptB>>

\* sendRealTimeUpdate (from the try block or from the catch block): link_updated
\* for a manual job with a linkId, then checkProjectAnalysisCompletion reads
\* the waiting jobs (getWaiting)
BEmitUpdate(w) ==
    /\ bpc[w] \in {"updated", "catch"}
    /\ LET job == bjobs[bjob[w]]
       IN  /\ emitted' = IF job.type = "manual" THEN Emit(emitted, job.projectId, "link_updated")
                         ELSE emitted
           /\ bseen' = [bseen EXCEPT ![w] =
                           BOfProject(InState("waiting"), job.projectId, job.type) # {}]
    /\ bpc' = [bpc EXCEPT ![w] = "chk_active"]
    /\ UNCHANGED <<bjobs, bdone, bseq, bjob, bres, ppc, plinks, puser, pidx, padd, runs, writes,
                   links, faults, exceptB>>

\* checkProjectAnalysisCompletion: getActive, and when no job of the project and
\* type is waiting or active, findByProjectIdAndType and analysis_completed if
\* no row is pending or checking.  The job being processed is itself active.
BCheckCompletion(w) ==
    /\ bpc[w] = "chk_active"
    /\ LET job == bjobs[bjob[w]]
           busy == bseen[w] \/ BOfProject(InState("active"), job.projectId, job.type) # {}
       IN  /\ bseen' = [bseen EXCEPT ![w] = busy]
           /\ emitted' = IF ~busy /\ Unprocessed(job.projectId, job.type) = {}
                          THEN Emit(emitted, job.projectId, "analysis_completed")
                          ELSE emitted
    /\ bpc' = [bpc EXCEPT ![w] = "return"]
    /\ UNCHANGED <<bjobs, bdone, bseq, bjob, bres, ppc, plinks, puser, pidx, padd, runs, writes,
                   links, faults, exceptB>>

\* processLinkAnalysisJob returns {success, ...} on both paths; BullMQ stores it
\* as the job's return value, completes the job and keeps the newest
\* REMOVE_ON_COMPLETE completed jobs
BReturn(w) ==
    /\ bpc[w] = "return"
    /\ LET kept == SubSeq(<<bjob[w]>> \o bdone, 1,
                          IF Len(bdone) + 1 > REMOVE_ON_COMPLETE THEN REMOVE_ON_COMPLETE
                          ELSE Len(bdone) + 1)
           done == [bjobs EXCEPT ![bjob[w]].state = "completed",
                                 ![bjob[w]].returnvalue = bres[w]]
       IN  /\ bdone' = kept
           /\ bjobs' = [j \in {k \in DOMAIN done : done[k].state # "completed" \/ k \in Range(kept)}
                          |-> done[j]]
    /\ bpc' = [bpc EXCEPT ![w] = "idle"]
    /\ UNCHANGED <<bseq, bjob, bres, bseen, ppc, plinks, puser, pidx, padd, runs, writes,
                   links, emitted, faults, exceptB>>

\* ------------------------------------------------------- analyzeGoogleSheet
StartedEvent(t) == IF t = "manual" THEN "analysis_started" ELSE "sheets_analysis_started"

SheetProject == 1
sheetvars == <<bOnly, hOnly, aOnly, fOnly, gOnly, rOnly, jOnly, tOnly, dOnly, users, processing, results, wpc, witem, wres, wseen, wsnap, restarts>>

\* analyzeGoogleSheet: the sheet is found, its status becomes analyzing and
\* readSheetData returns the URLs
SBegin ==
    /\ spc = "idle"
    /\ sruns < MaxSheetRuns
    /\ sruns' = sruns + 1
    /\ spc' = "delete"
    /\ UNCHANGED <<slinks, sidx, links, emitted, faults, now, queue, nextId, entered,
                   analysed, sheetvars>>

\* analyzeGoogleSheet: deleteByProjectIdAndType(project_id, 'google_sheets')
SDelete ==
    /\ spc = "delete"
    /\ links' = [l \in {k \in DOMAIN links : ~(links[k].project = SheetProject
                                              /\ links[k].type = "google_sheets")}
                    |-> links[l]]
    /\ spc' = "create"
    /\ UNCHANGED <<slinks, sidx, sruns, emitted, faults, now, queue, nextId, entered,
                   analysed, sheetvars>>

\* analyzeGoogleSheet: createMany writes one pending row per URL of the sheet
SCreate ==
    /\ spc = "create"
    /\ LET base == (sruns - 1) * SheetLinks
           ids == (base + 1)..(base + SheetLinks)
       IN  /\ links' = [l \in DOMAIN links \cup ids |->
                           IF l \in ids
                           THEN [project |-> SheetProject, type |-> "google_sheets",
                                 url |-> l - base, status |-> "pending"]
                           ELSE links[l]]
           /\ slinks' = [i \in 1..SheetLinks |-> base + i]
    /\ sidx' = 1
    /\ spc' = "enqueue"
    /\ UNCHANGED <<sruns, emitted, faults, now, queue, nextId, entered, analysed, sheetvars>>

\* analyzeGoogleSheet: one turn of the loop over createdLinks,
\* QueueService.addToQueue('google_sheets', ...)
SEnqueue ==
    /\ spc = "enqueue"
    /\ \E u \in DOMAIN users : addToQueue(u, slinks[sidx], 0)
    /\ sidx' = IF sidx = Len(slinks) THEN 1 ELSE sidx + 1
    /\ spc' = IF sidx = Len(slinks) THEN "start" ELSE "enqueue"
    /\ UNCHANGED <<slinks, sruns, links, emitted, faults, sheetvars>>

\* analyzeGoogleSheet: emitToProject(project_id, 'sheets_analysis_started')
SEmitStarted ==
    /\ spc = "start"
    /\ emitted' = Emit(emitted, SheetProject, "sheets_analysis_started")
    /\ spc' = "checking"
    /\ UNCHANGED <<slinks, sidx, sruns, links, faults, now, queue, nextId, entered,
                   analysed, sheetvars>>

\* analyzeGoogleSheet, analysis loop: the row becomes checking and
\* sheets_link_updated is emitted
SChecking ==
    /\ spc = "checking"
    /\ links' = IF slinks[sidx] \in DOMAIN links
                THEN [links EXCEPT ![slinks[sidx]].status = "checking"] ELSE links
    /\ emitted' = Emit(emitted, SheetProject, "sheets_link_updated")
    /\ spc' = "analyse"
    /\ UNCHANGED <<slinks, sidx, sruns, faults, now, queue, nextId, entered, analysed,
                   sheetvars>>

\* analyzeGoogleSheet, analysis loop: analyzeLink returns a verdict, the row is
\* updated, sheets_link_updated and sheets_analysis_progress are emitted; when
\* it throws, the catch writes Problem and emits sheets_link_updated
SFinal ==
    /\ spc = "analyse"
    /\ \E r \in {[success |-> TRUE, status |-> "OK"],
                 [success |-> TRUE, status |-> "Problem"],
                 [success |-> FALSE, status |-> "Problem"]} :
         /\ links' = IF slinks[sidx] \in DOMAIN links
                     THEN [links EXCEPT ![slinks[sidx]].status = r.status] ELSE links
         /\ emitted' = IF r.success
                       THEN Emit(Emit(emitted, SheetProject, "sheets_link_updated"),
                                 SheetProject, "sheets_analysis_progress")
                       ELSE Emit(emitted, SheetProject, "sheets_link_updated")
    /\ sidx' = IF sidx = Len(slinks) THEN 1 ELSE sidx + 1
    /\ spc' = IF sidx = Len(slinks) THEN "write" ELSE "checking"
    /\ UNCHANGED <<slinks, sruns, faults, now, queue, nextId, entered, analysed, sheetvars>>

\* analyzeGoogleSheet: writeAnalysisResults, updateScanInfo, then
\* sheets_analysis_completed
SFinish ==
    /\ spc = "write"
    /\ emitted' = Emit(emitted, SheetProject, "sheets_analysis_completed")
    /\ spc' = "idle"
    /\ UNCHANGED <<slinks, sidx, sruns, links, faults, now, queue, nextId, entered,
                   analysed, sheetvars>>

\* analyzeGoogleSheet: a call outside the per-link try throws (the database,
\* Redis, the Sheets API); the outer catch emits sheets_analysis_error
SFail ==
    /\ spc \in {"delete", "create", "enqueue", "write"}
    /\ faults < MaxFaults
    /\ faults' = faults + 1
    /\ emitted' = Emit(emitted, SheetProject, "sheets_analysis_error")
    /\ spc' = "idle"
    /\ UNCHANGED <<slinks, sidx, sruns, links, now, queue, nextId, entered, analysed,
                   sheetvars>>

\* --------------------------------------------------------- SchedulerService
\* analyzeGoogleSheet is one run here: it sets the sheet analyzing, then either
\* ends with status checked and sheets_analysis_completed or fails, sets status
\* error, emits sheets_analysis_error and rethrows.
Intervals == {"manual", "1h"}
ArmedOf(s) == {t \in armed : tmrs[t] = s}

NewRun(kind, s, task) == [id |-> nfires + 1, kind |-> kind, sheet |-> s, task |-> task,
                          pc |-> "analysing"]

\* scheduleSheet after cancelSheet: the task is created and stored, and either
\* a timer for executeScheduledAnalysis is armed or, for a time in the past,
\* executeScheduledAnalysis is called at once
ScheduleTask(s, interval, past) ==
    /\ Len(tmrs) < MaxTimers
    /\ nfires < MaxFires
    /\ tasks' = [tasks EXCEPT ![s] = Len(objs) + 1]
    /\ IF past
       THEN /\ objs' = Append(objs, [sheet |-> s, interval |-> interval, timerId |-> 0])
            /\ fires' = fires \cup {NewRun("inline", s, Len(objs) + 1)}
            /\ nfires' = nfires + 1
            /\ reported' = Append(reported, 0)
            /\ sheetsDb' = [sheetsDb EXCEPT ![s].status = "analyzing"]
            /\ UNCHANGED <<tmrs, armed>>
       ELSE /\ objs' = Append(objs, [sheet |-> s, interval |-> interval,
                                     timerId |-> Len(tmrs) + 1])
            /\ tmrs' = Append(tmrs, s)
            /\ armed' = armed \cup {Len(tmrs) + 1}
            /\ UNCHANGED <<fires, nfires, reported, sheetsDb>>

\* cancelSheet: for a sheet with a task, clearTimeout(task.timerId), the task is
\* deleted and the sheet's status becomes inactive
cancelSheet(s) ==
    /\ armed' = IF tasks[s] = 0 THEN armed ELSE armed \ {objs[tasks[s]].timerId}
    /\ tasks' = [tasks EXCEPT ![s] = 0]
    /\ sheetsDb' = IF tasks[s] = 0 THEN sheetsDb
                   ELSE [sheetsDb EXCEPT ![s].status = "inactive"]

\* scheduleSheet up to its first await that yields: cancelSheet returns at
\* once when the sheet has no task, and waits for the database otherwise
scheduleSheet(s, interval, past, call) ==
    IF tasks[s] = 0
    THEN /\ ScheduleTask(s, interval, past)
         /\ UNCHANGED pending
    ELSE /\ cancelSheet(s)
         /\ pending' = pending \cup {[id |-> call, sheet |-> s, interval |-> interval,
                                      past |-> past]}
         /\ UNCHANGED <<objs, tmrs, fires, nfires, reported>>

\* A call of SchedulerService.scheduleSheet(sheetId, projectId, interval, nextRun)
\* with the sheet's schedule_interval; calculateNextRun gives a time for every
\* interval, 'manual' included (its default branch: one hour)
ScheduleSheet(s, past) ==
    /\ ncalls < MaxCalls
    /\ ncalls' = ncalls + 1
    /\ scheduleSheet(s, sheetsDb[s].interval, past, ncalls + 1)
    /\ cancelled' = [cancelled EXCEPT ![s] = FALSE]
    /\ UNCHANGED <<initq, initpc, isInitialized, isShuttingDown, emitted, faults, exceptH>>

\* scheduleSheet goes on after cancelSheet's database write
ScheduleResume(c) ==
    /\ c \in pending
    /\ pending' = pending \ {c}
    /\ ScheduleTask(c.sheet, c.interval, c.past)
    /\ UNCHANGED <<initq, initpc, isInitialized, isShuttingDown, ncalls, cancelled,
                   emitted, faults, exceptH>>

\* A call of SchedulerService.cancelSheet(sheetId)
CancelSheet(s) ==
    /\ ncalls < MaxCalls
    /\ ncalls' = ncalls + 1
    /\ cancelSheet(s)
    /\ cancelled' = [cancelled EXCEPT ![s] = TRUE]
    /\ UNCHANGED <<objs, tmrs, fires, pending, initq, initpc, isInitialized,
                   isShuttingDown, nfires, reported, emitted, faults, exceptH>>

\* GoogleSheetsController.cancelAnalysis: the sheet's status becomes inactive
CancelAnalysis(s) ==
    /\ ncalls < MaxCalls
    /\ ncalls' = ncalls + 1
    /\ sheetsDb' = [sheetsDb EXCEPT ![s].status = "inactive"]
    /\ cancelled' = [cancelled EXCEPT ![s] = TRUE]
    /\ UNCHANGED <<tasks, objs, tmrs, armed, fires, pending, initq, initpc, isInitialized,
                   isShuttingDown, nfires, reported, emitted, faults, exceptH>>

\* GoogleSheetsController.analyzeGoogleSheet: starts a run unless the sheet is
\* analyzing
EndpointAnalyze(s) ==
    /\ nfires < MaxFires
    /\ sheetsDb[s].status # "analyzing"
    /\ fires' = fires \cup {NewRun("endpoint", s, 0)}
    /\ nfires' = nfires + 1
    /\ reported' = Append(reported, 0)
    /\ sheetsDb' = [sheetsDb EXCEPT ![s].status = "analyzing"]
    /\ UNCHANGED <<tasks, objs, tmrs, armed, pending, initq, initpc, isInitialized,
                   isShuttingDown, ncalls, cancelled, emitted, faults, exceptH>>

\* A timer goes off: executeScheduledAnalysis(sheetId) returns when the sheet
\* has no task, and starts analyzeGoogleSheet otherwise
TimerFire(t) ==
    /\ t \in armed
    /\ nfires < MaxFires
    /\ armed' = armed \ {t}
    /\ IF tasks[tmrs[t]] = 0
       THEN UNCHANGED <<fires, nfires, reported, sheetsDb>>
       ELSE /\ fires' = fires \cup {NewRun("timer", tmrs[t], tasks[tmrs[t]])}
            /\ nfires' = nfires + 1
            /\ reported' = Append(reported, 0)
            /\ sheetsDb' = [sheetsDb EXCEPT ![tmrs[t]].status = "analyzing"]
    /\ UNCHANGED <<tasks, objs, tmrs, pending, initq, initpc, isInitialized,
                   isShuttingDown, ncalls, cancelled, emitted, faults, exceptH>>

\* analyzeGoogleSheet: updateScanInfo(sheetId, 'checked', ...)
FireAnalysed(f) ==
    /\ f \in fires
    /\ f.pc = "analysing"
    /\ sheetsDb' = [sheetsDb EXCEPT ![f.sheet].status = "checked"]
    /\ fires' = (fires \ {f}) \cup {[f EXCEPT !.pc = "done"]}
    /\ UNCHANGED <<tasks, objs, tmrs, armed, pending, initq, initpc, isInitialized,
                   isShuttingDown, ncalls, nfires, cancelled, reported, emitted, faults,
                   exceptH>>

\* analyzeGoogleSheet throws; its catch sets the sheet's status to error
FireFail(f) ==
    /\ f \in fires
    /\ f.pc = "analysing"
    /\ faults < MaxFaults
    /\ faults' = faults + 1
    /\ sheetsDb' = [sheetsDb EXCEPT ![f.sheet].status = "error"]
    /\ fires' = (fires \ {f}) \cup {[f EXCEPT !.pc = "failed"]}
    /\ UNCHANGED <<tasks, objs, tmrs, armed, pending, initq, initpc, isInitialized,
                   isShuttingDown, ncalls, nfires, cancelled, reported, emitted, exceptH>>

\* analyzeGoogleSheet emits sheets_analysis_completed and returns;
\* executeScheduledAnalysis arms the next timer on the task it read at its
\* start, then writes next_scan
FireRearm(f) ==
    /\ f \in fires
    /\ f.pc = "done"
    /\ emitted' = Emit(emitted, SheetProject, "sheets_analysis_completed")
    /\ IF f.kind = "endpoint"
       THEN /\ fires' = fires \ {f}
            /\ UNCHANGED <<objs, tmrs, armed>>
       ELSE /\ Len(tmrs) < MaxTimers
            /\ fires' = (fires \ {f}) \cup {[f EXCEPT !.pc = "update"]}
            /\ tmrs' = Append(tmrs, f.sheet)
            /\ armed' = armed \cup {Len(tmrs) + 1}
            /\ objs' = [objs EXCEPT ![f.task].timerId = Len(tmrs) + 1]
    /\ UNCHANGED <<sheetsDb, tasks, pending, initq, initpc, isInitialized, isShuttingDown,
                   ncalls, nfires, cancelled, reported, faults, exceptH>>

\* executeScheduledAnalysis: GoogleSheetModel.update(sheetId, {next_scan}) returns
FireUpdated(f) ==
    /\ f \in fires
    /\ f.pc = "update"
    /\ fires' = fires \ {f}
    /\ UNCHANGED <<sheetsDb, tasks, objs, tmrs, armed, pending, initq, initpc,
                   isInitialized, isShuttingDown, ncalls, nfires, cancelled, reported,
                   emitted, faults, exceptH>>

\* executeScheduledAnalysis: GoogleSheetModel.update(sheetId, {next_scan}) throws;
\* the catch emits sheets_analysis_error when the sheet has a task
FireUpdateFail(f) ==
    /\ f \in fires
    /\ f.pc = "update"
    /\ faults < MaxFaults
    /\ faults' = faults + 1
    /\ fires' = fires \ {f}
    /\ emitted' = IF tasks[f.sheet] # 0
                  THEN Emit(emitted, SheetProject, "sheets_analysis_error") ELSE emitted
    /\ reported' = [reported EXCEPT ![f.id] = IF tasks[f.sheet] # 0 THEN 1 ELSE 0]
    /\ UNCHANGED <<sheetsDb, tasks, objs, tmrs, armed, pending, initq, initpc,
                   isInitialized, isShuttingDown, ncalls, nfires, cancelled, exceptH>>

\* The catch of analyzeGoogleSheet emits sheets_analysis_error and rethrows; the
\* catch of executeScheduledAnalysis emits sheets_analysis_error when the sheet
\* has a task, and arms nothing
FireCatch(f) ==
    /\ f \in fires
    /\ f.pc = "failed"
    /\ fires' = fires \ {f}
    /\ LET twice == f.kind # "endpoint" /\ tasks[f.sheet] # 0
       IN  /\ emitted' = IF twice
                          THEN Emit(Emit(emitted, SheetProject, "sheets_analysis_error"),
                                    SheetProject, "sheets_analysis_error")
                          ELSE Emit(emitted, SheetProject, "sheets_analysis_error")
           /\ reported' = [reported EXCEPT ![f.id] = IF twice THEN 2 ELSE 1]
    /\ UNCHANGED <<sheetsDb, tasks, objs, tmrs, armed, pending, initq, initpc,
                   isInitialized, isShuttingDown, ncalls, nfires, cancelled, faults, exceptH>>

\* SchedulerService.shutdown: the timers of the tasks in the map are cleared and
\* the map is emptied
Shutdown ==
    /\ ~isShuttingDown
    /\ isShuttingDown' = TRUE
    /\ armed' = armed \ {objs[tasks[s]].timerId : s \in {x \in DOMAIN tasks : tasks[x] # 0}}
    /\ tasks' = [s \in DOMAIN tasks |-> 0]
    /\ isInitialized' = FALSE
    /\ UNCHANGED <<sheetsDb, objs, tmrs, fires, pending, initq, initpc, ncalls, nfires,
                   cancelled, reported, emitted, faults, exceptH>>

\* GoogleSheetModel.getActiveSheets, filtered once more by initialize
getActiveSheets ==
    LET ids == {s \in DOMAIN sheetsDb : /\ sheetsDb[s].status \in {"not_started", "checked"}
                                        /\ sheetsDb[s].interval # "manual"}
        RECURSIVE Asc(_)
        Asc(S) == IF S = {} THEN <<>>
                  ELSE LET m == CHOOSE x \in S : \A y \in S : x <= y
                       IN  <<m>> \o Asc(S \ {m})
    IN  Asc(ids)

\* SchedulerService.initialize: reads the active sheets
Initialize ==
    /\ ~isInitialized
    /\ initpc = "off"
    /\ initq' = getActiveSheets
    /\ initpc' = "loop"
    /\ UNCHANGED <<sheetsDb, tasks, objs, tmrs, armed, fires, pending, isInitialized,
                   isShuttingDown, ncalls, nfires, cancelled, reported, emitted, faults,
                   exceptH>>

\* SchedulerService.initialize: one turn of the loop, scheduleSheet for the
\* sheet with its interval and next_scan
InitSchedule(past) ==
    /\ initpc = "loop"
    /\ initq # <<>>
    /\ initq' = Tail(initq)
    /\ scheduleSheet(Head(initq), sheetsDb[Head(initq)].interval, past, 0)
    /\ cancelled' = [cancelled EXCEPT ![Head(initq)] = FALSE]
    /\ UNCHANGED <<initpc, isInitialized, isShuttingDown, ncalls, emitted, faults, exceptH>>

\* SchedulerService.initialize: the loop is over
InitDone ==
    /\ initpc = "loop"
    /\ initq = <<>>
    /\ initpc' = "off"
    /\ isInitialized' = TRUE
    /\ UNCHANGED <<sheetsDb, tasks, objs, tmrs, armed, fires, pending, initq,
                   isShuttingDown, ncalls, nfires, cancelled, reported, emitted, faults,
                   exceptH>>

\* ------------------------------------------------ LinkAnalyzer.analyzeLink
\* An optional field of a result is a key that is or is not in the record's
\* domain; "none" in an input stands for undefined / null.
FoundTypes == {"dofollow", "nofollow", "sponsored", "ugc"}

\* response?.status() || 0 : no response, a page, blocked, another HTTP error
ResponseCodes == {0, 200, 403, 404}

\* getCanonicalUrl / extractCanonicalUrl against currentUrl
Canonicals == {"none", "same", "other"}

\* what findTargetLinks and extractLinksFromHtml return
LinkAnalyses ==
    {[found |-> FALSE, linkType |-> "not_found"]}
        \cup {[found |-> TRUE, linkType |-> t] : t \in FoundTypes}

\* what checkIndexability and checkIndexabilityFromHtml return
IndexabilityChecks ==
    {[indexable |-> TRUE, reason |-> "none"], [indexable |-> FALSE, reason |-> "noindex"]}

\* what a render shows: the three reads of analyzePageContent
Pages == [la : LinkAnalyses, ix : IndexabilityChecks, canon : Canonicals]

\* what the proxy gives: not configured, request failed, or a page
ScrapeOutcomes ==
    [kind : {"unavailable", "failed"}, la : {[found |-> FALSE, linkType |-> "not_found"]},
     ix : {[indexable |-> TRUE, reason |-> "none"]}, canon : {"none"}]
        \cup [kind : {"page"}, la : LinkAnalyses, ix : IndexabilityChecks, canon : Canonicals]

NoVerdict == <<>>

\* Object.assign(a, b)
ObjectAssign(a, b) ==
    [k \in DOMAIN a \cup DOMAIN b |-> IF k \in DOMAIN b THEN b[k] ELSE a[k]]

\* the fields of all that are set: { k: v, ...(x && { x }) }
Fields(all, keys) == [k \in keys |-> all[k]]

\* x.k || d for a string field: the field if it is set
OrElse(x, k, d) == IF k \in DOMAIN x THEN x[k] ELSE d

\* x.k || d for a boolean field: d unless the field is set and true
OrBool(x, k, d) == IF k \in DOMAIN x /\ x[k] THEN TRUE ELSE d

\* the optional fields a verdict copies from a partial result
Copied(x, keys) == [k \in DOMAIN x \cap keys |-> x[k]]

analyzePageContent(pg) ==
    LET status == IF ~pg.la.found THEN "Problem"
                  ELSE IF ~pg.ix.indexable THEN "Problem"
                  ELSE "OK"
        reason == IF ~pg.la.found THEN "none"
                  ELSE IF ~pg.ix.indexable THEN pg.ix.reason
                  ELSE IF pg.canon = "other" THEN "Canonicalized"
                  ELSE "none"
        all == [status |-> status, indexable |-> pg.ix.indexable, linkType |-> pg.la.linkType,
                canonicalUrl |-> pg.canon, fullATag |-> "a", nonIndexableReason |-> reason]
    IN  Fields(all, {"status", "indexable", "linkType"}
                      \cup (IF pg.canon # "none" THEN {"canonicalUrl"} ELSE {})
                      \cup (IF pg.la.found THEN {"fullATag"} ELSE {})
                      \cup (IF reason # "none" THEN {"nonIndexableReason"} ELSE {}))

analyzeWithScrapeDo(out) ==
    IF out.kind = "unavailable"
    THEN [linkType |-> "not_found", error |-> "Scrape.do not configured"]
    ELSE IF out.kind = "failed"
    THEN [linkType |-> "not_found", error |-> "Scrape.do error"]
    ELSE IF ~out.la.found
    THEN [linkType |-> "not_found"]
    ELSE
    LET status == IF ~out.ix.indexable THEN "Problem" ELSE "OK"
        reason == IF ~out.ix.indexable THEN out.ix.reason
                  ELSE IF out.canon = "other" THEN "Canonicalized"
                  ELSE "none"
        all == [status |-> status, indexable |-> out.ix.indexable, linkType |-> out.la.linkType,
                canonicalUrl |-> out.canon, fullATag |-> "a", nonIndexableReason |-> reason]
    IN  Fields(all, {"status", "indexable", "linkType", "fullATag"}
                      \cup (IF out.canon # "none" THEN {"canonicalUrl"} ELSE {})
                      \cup (IF reason # "none" THEN {"nonIndexableReason"} ELSE {}))

\* linkType && linkType !== 'not_found'
LinkFound(x) == "linkType" \in DOMAIN x /\ x.linkType # "not_found"

\* The verdict of the 403 branch and of the catch when the proxy found the link.
RecoveredVerdict(sd, code) ==
    ObjectAssign([status |-> OrElse(sd, "status", "OK"),
                  responseCode |-> code,
                  indexable |-> OrBool(sd, "indexable", TRUE),
                  linkType |-> sd.linkType],
                 Copied(sd, {"canonicalUrl", "fullATag", "nonIndexableReason"}))

\* The verdict of an HTTP error, of a 403 and of an exception the proxy did not recover.
FailedVerdict(code, err) ==
    [status |-> "Problem", responseCode |-> code, indexable |-> FALSE,
     linkType |-> "not_found", error |-> err]

\* The verdict built from analysisResult at the end of the try.
FinalVerdict(res, code) ==
    ObjectAssign([status |-> OrElse(res, "status", "Problem"),
                  responseCode |-> code,
                  indexable |-> OrBool(res, "indexable", FALSE),
                  linkType |-> OrElse(res, "linkType", "not_found")],
                 Copied(res, {"canonicalUrl", "fullATag", "nonIndexableReason", "error"}))

\* A return whose finally block leaves the browser as it is.
ReturnLeak(v, path) ==
    /\ averdict' = v
    /\ apath' = path
    /\ apc' = "done"
    /\ abrowser' = abrowser

\* return, then the finally block closes the browser
Return(v, path) ==
    /\ averdict' = v
    /\ apath' = path
    /\ apc' = "done"
    /\ abrowser' = FALSE

\* A call of analyzeLink.
AnalyzeLink ==
    /\ apc \in {"idle", "done"}
    /\ acalls < MaxAnalyses
    /\ acalls' = acalls + 1
    /\ apc' = "launch"
    /\ acode' = 0
    /\ ares' = <<>>
    /\ averdict' = NoVerdict
    /\ apath' = "none"
    /\ UNCHANGED <<abrowser, exceptA>>

\* puppeteer.launch, newPage, setUserAgent
LaLaunch ==
    /\ apc = "launch"
    /\ apc' = "goto"
    /\ abrowser' = TRUE
    /\ UNCHANGED <<acode, ares, averdict, apath, acalls, exceptA>>

\* page.goto answers: the 403 branch, another HTTP error, or a page to analyse
LaGoto(code) ==
    /\ apc = "goto"
    /\ acode' = code
    /\ IF code = 403
       THEN apc' = "primary403" /\ UNCHANGED <<abrowser, averdict, apath>>
       ELSE IF code = 0 \/ code >= 400
       THEN Return(FailedVerdict(code, "HTTP error"), "http_error")
       ELSE apc' = "render" /\ UNCHANGED <<abrowser, averdict, apath>>
    /\ UNCHANGED <<ares, acalls, exceptA>>

\* primary 403: the proxy's answer decides
LaPrimary403(out) ==
    /\ apc = "primary403"
    /\ LET sd == analyzeWithScrapeDo(out)
       IN  IF LinkFound(sd)
           THEN Return(RecoveredVerdict(sd, acode), "primary403")
           ELSE Return(FailedVerdict(acode, "site blocks all scrapers"), "primary403")
    /\ UNCHANGED <<acode, ares, acalls, exceptA>>

\* waitForTimeout, analyzePageContent: return if the link is there, else reload
LaRender(pg) ==
    /\ apc = "render"
    /\ LET res == analyzePageContent(pg)
       IN  /\ ares' = res
           /\ IF LinkFound(res)
              THEN Return(FinalVerdict(res, acode), "direct")
              ELSE apc' = "reload" /\ UNCHANGED <<abrowser, averdict, apath>>
    /\ UNCHANGED <<acode, acalls, exceptA>>

\* page.reload, scroll, analyzePageContent again
LaReload(pg) ==
    /\ apc = "reload"
    /\ LET retry == analyzePageContent(pg)
       IN  IF LinkFound(retry)
           THEN /\ ares' = ObjectAssign(ares, retry)
                /\ Return(FinalVerdict(ares', acode), "reload")
           ELSE /\ apc' = "proxy"
                /\ UNCHANGED <<ares, abrowser, averdict, apath>>
    /\ UNCHANGED <<acode, acalls, exceptA>>

\* the link is still absent: the proxy as fallback
LaProxy(out) ==
    /\ apc = "proxy"
    /\ LET sd == analyzeWithScrapeDo(out)
       IN  ares' = IF LinkFound(sd) THEN ObjectAssign(ares, sd) ELSE ares
    /\ Return(FinalVerdict(ares', acode), "proxy")
    /\ UNCHANGED <<acode, acalls, exceptA>>

\* launch, goto, waitForTimeout, reload or evaluate throws
LaThrow ==
    /\ apc \in {"launch", "goto", "render", "reload"}
    /\ apc' = "catch"
    /\ UNCHANGED <<abrowser, acode, ares, averdict, apath, acalls, exceptA>>

\* the catch: the proxy as fallback for the exception
LaCatch(out) ==
    /\ apc = "catch"
    /\ LET sd == analyzeWithScrapeDo(out)
       IN  IF LinkFound(sd)
           THEN Return(RecoveredVerdict(sd, 200), "exception")
           ELSE Return(FailedVerdict(0, "errorMessage"), "exception")
    /\ UNCHANGED <<acode, ares, acalls, exceptA>>

\* ------------------------------------------- link class and indexability
\* A rel attribute or a robots directive list is the set of its tokens.  The
\* source tests rel.includes(word) on the lowercased string; no token of the
\* rel or robots vocabulary holds another one as a substring, so the test is
\* membership of the token.
RelTokens == {"nofollow", "sponsored", "ugc", "noopener"}

Rels == SUBSET RelTokens

Includes(rel, word) == word \in rel

\* The rel analysis of findTargetLinks with ugc tested before sponsored.
findTargetLinksUgcFirst(rels) ==
    LET hasNofollow == \E i \in DOMAIN rels : Includes(rels[i], "nofollow")
        hasSponsored == \E i \in DOMAIN rels : Includes(rels[i], "sponsored")
        hasUgc == \E i \in DOMAIN rels : Includes(rels[i], "ugc")
        hasDofollow == \E i \in DOMAIN rels : ~Includes(rels[i], "nofollow")
    IN  IF Len(rels) = 0 THEN "not_found"
        ELSE IF hasUgc THEN "ugc"
        ELSE IF hasSponsored THEN "sponsored"
        ELSE IF hasNofollow /\ ~hasDofollow THEN "nofollow"
        ELSE "dofollow"

\* findTargetLinks over links, the matches in document order, each by its rel
findTargetLinks(rels) ==
    LET hasNofollow == \E i \in DOMAIN rels : Includes(rels[i], "nofollow")
        hasSponsored == \E i \in DOMAIN rels : Includes(rels[i], "sponsored")
        hasUgc == \E i \in DOMAIN rels : Includes(rels[i], "ugc")
        hasDofollow == \E i \in DOMAIN rels : ~Includes(rels[i], "nofollow")
    IN  IF Len(rels) = 0 THEN "not_found"
        ELSE IF hasSponsored THEN "sponsored"
        ELSE IF hasUgc THEN "ugc"
        ELSE IF hasNofollow /\ ~hasDofollow THEN "nofollow"
        ELSE IF hasDofollow THEN "dofollow"
        ELSE "dofollow"

\* extractLinksFromHtml over foundLinks: the rel of foundLinks[0] decides
extractLinksFromHtml(rels) ==
    IF Len(rels) = 0 THEN "not_found"
    ELSE LET relValue == rels[1]
         IN  IF Includes(relValue, "nofollow") THEN "nofollow"
             ELSE IF Includes(relValue, "sponsored") THEN "sponsored"
             ELSE IF Includes(relValue, "ugc") THEN "ugc"
             ELSE "dofollow"

\* the direct render classifies the matches of the page
FindTargetLinks ==
    /\ "findTargetLinks" \notin fpc
    /\ "links" \in DOMAIN fin
    /\ fpc' = fpc \cup {"findTargetLinks"}
    /\ fout' = ObjectAssign(fout, [findTargetLinks |-> findTargetLinks(fin.links)])
    /\ UNCHANGED <<fin, exceptF>>

\* the proxy path classifies the matches of the same page
ExtractLinksFromHtml ==
    /\ "extractLinksFromHtml" \notin fpc
    /\ "links" \in DOMAIN fin
    /\ fpc' = fpc \cup {"extractLinksFromHtml"}
    /\ fout' = ObjectAssign(fout, [extractLinksFromHtml |-> extractLinksFromHtml(fin.links)])
    /\ UNCHANGED <<fin, exceptF>>

RobotsTokens == {"noindex", "none", "nofollow", "noarchive"}

\* a robots value; the empty set is a missing or empty meta tag or header
Robots == SUBSET RobotsTokens

\* checkIndexability(page, xRobotsTag): .indexable
checkIndexability(robotsMeta, xRobotsTag) ==
    IF robotsMeta # {} /\ (Includes(robotsMeta, "noindex") \/ Includes(robotsMeta, "none"))
    THEN FALSE
    ELSE IF robotsMeta # {} /\ Includes(robotsMeta, "nofollow")
    THEN TRUE
    ELSE IF xRobotsTag # {} /\ (Includes(xRobotsTag, "noindex") \/ Includes(xRobotsTag, "none"))
    THEN FALSE
    ELSE TRUE

\* checkIndexabilityFromHtml(html): .indexable; the html holds the meta tag only
checkIndexabilityFromHtml(robotsMeta) ==
    IF robotsMeta # {} /\ Includes(robotsMeta, "noindex")
    THEN FALSE
    ELSE TRUE

\* the direct render checks the page and the header of its response
CheckIndexability ==
    /\ "checkIndexability" \notin fpc
    /\ "meta" \in DOMAIN fin
    /\ fpc' = fpc \cup {"checkIndexability"}
    /\ fout' = ObjectAssign(fout, [checkIndexability |-> checkIndexability(fin.meta, fin.header)])
    /\ UNCHANGED <<fin, exceptF>>

\* the proxy path checks the html of the same page
CheckIndexabilityFromHtml ==
    /\ "checkIndexabilityFromHtml" \notin fpc
    /\ "meta" \in DOMAIN fin
    /\ fpc' = fpc \cup {"checkIndexabilityFromHtml"}
    /\ fout' = ObjectAssign(fout, [checkIndexabilityFromHtml |-> checkIndexabilityFromHtml(fin.meta)])
    /\ UNCHANGED <<fin, exceptF>>

\* ------------------------------------------------- normalizeTargetDomain
\* A string is the sequence of its characters.
SchemeSep == <<":", "/", "/">>
Https == <<"h", "t", "t", "p", "s">> \o SchemeSep
Http == <<"h", "t", "t", "p">> \o SchemeSep
Www == <<"w", "w", "w", ".">>

\* the strings a user types as target domain: scheme, www., host, path, blank
Schemes == {<<>>, Https, Http}
Hosts == {<<"F", "o", "o", ".", "c", "o", "m">>, <<"F", "O", "O", ".", "c", "o", "m">>,
          <<"f", "o", "o", ".", "c", "o", "m">>, <<"h", "t", "t", "p", "x", ".", "i", "o">>}
Paths == {<<>>, <<"/", "b", "a", "r">>}
Blanks == {<<>>, <<" ">>}

\* String.prototype.startsWith
StartsWith(s, pre) == Len(s) >= Len(pre) /\ SubSeq(s, 1, Len(pre)) = pre

\* String.prototype.includes
IncludesStr(s, sub) ==
    \E i \in 1..(Len(s) - Len(sub) + 1) : SubSeq(s, i, i + Len(sub) - 1) = sub

\* String.prototype.toLowerCase over the letters of Hosts
ToLowerCase(s) ==
    [i \in DOMAIN s |-> CASE s[i] = "F" -> "f" [] s[i] = "O" -> "o" [] OTHER -> s[i]]

\* String.prototype.trim
RECURSIVE Trim(_)
Trim(s) ==
    IF s = <<>> THEN s
    ELSE IF Head(s) = " " THEN Trim(Tail(s))
    ELSE IF s[Len(s)] = " " THEN Trim(SubSeq(s, 1, Len(s) - 1))
    ELSE s

\* the index of the first "/" of s, Len(s) + 1 if there is none
RECURSIVE FirstSlash(_, _)
FirstSlash(s, i) ==
    IF i > Len(s) THEN i ELSE IF s[i] = "/" THEN i ELSE FirstSlash(s, i + 1)

\* new URL(s).hostname for http(s) URLs: blanks around s are stripped, the
\* host ends at the first "/", and it is lowercased; anything without a
\* scheme throws
UrlHostname(s) ==
    LET t == Trim(s)
        rest == IF StartsWith(t, Https) THEN SubSeq(t, Len(Https) + 1, Len(t))
                ELSE SubSeq(t, Len(Http) + 1, Len(t))
    IN  IF (StartsWith(t, Https) \/ StartsWith(t, Http)) /\ rest # <<>> /\ Head(rest) # "/"
        THEN [ok |-> TRUE, hostname |-> ToLowerCase(SubSeq(rest, 1, FirstSlash(rest, 1) - 1))]
        ELSE [ok |-> FALSE, hostname |-> <<>>]

normalizeTargetDomain(targetDomain) ==
    IF ~IncludesStr(targetDomain, SchemeSep) /\ ~IncludesStr(targetDomain, <<"/">>)
    THEN Trim(ToLowerCase(targetDomain))
    ELSE LET url == UrlHostname(IF StartsWith(targetDomain, <<"h", "t", "t", "p">>)
                                THEN targetDomain
                                ELSE Https \o targetDomain)
         IN  IF ~url.ok
             THEN Trim(ToLowerCase(targetDomain))
             ELSE IF StartsWith(url.hostname, Www)
             THEN SubSeq(url.hostname, 5, Len(url.hostname))
             ELSE url.hostname

\* a call of normalizeTargetDomain on the string the user typed
NormalizeTargetDomain ==
    /\ "normalizeTargetDomain" \notin fpc
    /\ "targetDomain" \in DOMAIN fin
    /\ fpc' = fpc \cup {"normalizeTargetDomain"}
    /\ fout' = ObjectAssign(fout, [normalizeTargetDomain |-> normalizeTargetDomain(fin.targetDomain)])
    /\ UNCHANGED <<fin, exceptF>>

\* ------------------------------------------------------- the result range
\* A column name is the sequence of its letters, a letter its place in the
\* alphabet (A = 1); the request schemas admit /^[A-Z]+$/.  <<>> is a field
\* the request does not carry.
Columns == UNION {[1..n -> 1..MaxLetter] : n \in 1..MaxColLen}

Undefined == <<>>

\* result_range_start and result_range_end of an update request, both optional
OptionalRanges == (Columns \cup {Undefined}) \X (Columns \cup {Undefined})

\* GoogleSheetModel.columnToIndex: A = 0, ..., Z = 25, AA = 26
RECURSIVE ColumnValue(_)
ColumnValue(column) ==
    IF column = <<>> THEN 0
    ELSE ColumnValue(SubSeq(column, 1, Len(column) - 1)) * 26 + column[Len(column)]

columnToIndex(column) == ColumnValue(column) - 1

validateResultRange(startCol, endCol) ==
    (columnToIndex(endCol) - columnToIndex(startCol) + 1) = 5

\* POST: the range is validated, then GoogleSheetModel.create stores the row
CreateGoogleSheet(startCol, endCol) ==
    /\ nreq < MaxRequests
    /\ Len(ranges) < NumSheets
    /\ nreq' = nreq + 1
    /\ ranges' = IF validateResultRange(startCol, endCol)
                 THEN Append(ranges, [result_range_start |-> startCol,
                                      result_range_end |-> endCol])
                 ELSE ranges
    /\ UNCHANGED exceptG

\* PUT: the range is validated if the request carries both ends, then
\* GoogleSheetModel.update writes the fields the request carries
UpdateGoogleSheet(s, startCol, endCol) ==
    /\ nreq < MaxRequests
    /\ nreq' = nreq + 1
    /\ ranges' =
         IF startCol # Undefined /\ endCol # Undefined /\ ~validateResultRange(startCol, endCol)
         THEN ranges
         ELSE [ranges EXCEPT
                 ![s] = [result_range_start |-> IF startCol # Undefined THEN startCol
                                                ELSE @.result_range_start,
                         result_range_end |-> IF endCol # Undefined THEN endCol
                                              ELSE @.result_range_end]]
    /\ UNCHANGED exceptG

\* ---------------------------------------------------- resetAnalysisStatus
\* The verdict columns of manual_links; column values are written as strings,
\* Null is SQL NULL.
Null == "NULL"

VerdictColumns == {"response_code", "indexable", "link_type", "canonical_url", "load_time",
                   "full_a_tag", "non_indexable_reason", "checked_at"}

\* what ManualLinkModel.update writes for a verdict
UpdateData ==
    {[status |-> "OK", response_code |-> "200", indexable |-> "true",
      link_type |-> "dofollow", canonical_url |-> "same", load_time |-> "1s",
      checked_at |-> "now"],
     [status |-> "Problem", response_code |-> "404", indexable |-> "false",
      link_type |-> "not_found", canonical_url |-> Null, load_time |-> "2s",
      checked_at |-> "now"]}

\* a row as createMany leaves it
FreshRow(p, t) ==
    [project |-> p, type |-> t, url |-> 1, status |-> "pending",
     response_code |-> Null, indexable |-> Null, link_type |-> Null, canonical_url |-> Null,
     load_time |-> Null, full_a_tag |-> Null, non_indexable_reason |-> Null,
     checked_at |-> Null]

\* a row a finished analysis left
CheckedRow(p, t) ==
    [project |-> p, type |-> t, url |-> 1, status |-> "OK",
     response_code |-> "200", indexable |-> "true", link_type |-> "nofollow",
     canonical_url |-> "other", load_time |-> "3s", full_a_tag |-> "a",
     non_indexable_reason |-> "Canonicalized", checked_at |-> "then"]

\* The UPDATE of resetAnalysisStatus without its type condition.
resetAnalysisStatusAnyType(rows, projectId, type) ==
    [l \in DOMAIN rows |->
        IF rows[l].project = projectId
        THEN [k \in DOMAIN rows[l] |->
                 IF k = "status" THEN "pending"
                 ELSE IF k \in VerdictColumns THEN Null
                 ELSE rows[l][k]]
        ELSE rows[l]]

\* UPDATE manual_links SET status = 'pending', <verdict columns> = NULL
\* WHERE project_id = $1 AND type = $2
resetAnalysisStatus(rows, projectId, type) ==
    [l \in DOMAIN rows |->
        IF rows[l].project = projectId /\ rows[l].type = type
        THEN [k \in DOMAIN rows[l] |->
                 IF k = "status" THEN "pending"
                 ELSE IF k \in VerdictColumns THEN Null
                 ELSE rows[l][k]]
        ELSE rows[l]]

\* a call of resetAnalysisStatus; fin keeps its arguments and the table before
ResetAnalysisStatus(projectId, type) ==
    /\ "rows" \in DOMAIN fin
    /\ links' = resetAnalysisStatus(links, projectId, type)
    /\ fin' = [rows |-> links, projectId |-> projectId, type |-> type]
    /\ fpc' = {"resetAnalysisStatus"}
    /\ UNCHANGED <<fout, qOnly, bOnly, sOnly, hOnly, aOnly, gOnly, rOnly, jOnly, tOnly, dOnly, emitted, faults>>

\* ManualLinkModel.update(id, updateData): a worker writes a verdict
UpdateLink(id, updateData) ==
    /\ "rows" \in DOMAIN fin
    /\ links' = [links EXCEPT ![id] = ObjectAssign(@, updateData)]
    /\ fpc' = {}
    /\ UNCHANGED <<fin, fout, qOnly, bOnly, sOnly, hOnly, aOnly, gOnly, rOnly, jOnly, tOnly, dOnly, emitted, faults>>

\* ------------------------------------------------------- sheet write-back
\* The URL column as values.get returns it: the header cell, then one cell per
\* sheet row down to the last cell that is not empty.  A cell is empty, text
\* that new URL() rejects, or one of two URLs.
Cells == {"", "not a url", "https://a.example/", "https://b.example/"}

UrlColumns ==
    {c \in UNION {[1..n -> Cells] : n \in 1..(MaxSheetRows + 1)} :
        Len(c) > 1 => c[Len(c)] # ""}

\* GoogleSheetsService.isValidUrl: new URL(url) does not throw
isValidUrl(url) == url \in {"https://a.example/", "https://b.example/"}

\* readSheetData: urls.slice(1), then processedUrls keeps the cells that hold
\* a valid URL, in order
readSheetData(urls) ==
    LET dataUrls == SubSeq(urls, 2, Len(urls))
        keep(url) == url # "" /\ isValidUrl(url)
    IN  [urls |-> SelectSeq(dataUrls, keep),
         totalRows |-> Len(SelectSeq(dataUrls, keep))]

\* analyzeGoogleSheet calls readSheetData
ReadSheetData ==
    /\ "readSheetData" \notin fpc
    /\ "urlColumn" \in DOMAIN fin
    /\ fpc' = fpc \cup {"readSheetData"}
    /\ fout' = ObjectAssign(fout, [sheetData |-> readSheetData(fin.urlColumn)])
    /\ UNCHANGED <<fin, exceptF>>

\* analyzeGoogleSheet: createMany makes one row per sheetData.urls entry and
\* the loop pushes one analysisResult per created link, in that order; the
\* verdict of a link is that of its URL (status is what the analyser found)
AnalyzeLinks(statuses) ==
    /\ "readSheetData" \in fpc
    /\ "analysisResults" \notin fpc
    /\ DOMAIN statuses = DOMAIN fout.sheetData.urls
    /\ fpc' = fpc \cup {"analysisResults"}
    /\ fout' = ObjectAssign(fout,
                 [analysisResults |->
                    [i \in DOMAIN statuses |->
                        [url |-> fout.sheetData.urls[i], status |-> statuses[i]]]])
    /\ UNCHANGED <<fin, exceptF>>

\* writeAnalysisResults: values = [headers, ...dataRows] written to the range
\* resultRangeStart:resultRangeEnd, that is from sheet row 1 downwards
WriteAnalysisResults ==
    /\ "analysisResults" \in fpc
    /\ "writeAnalysisResults" \notin fpc
    /\ fpc' = fpc \cup {"writeAnalysisResults"}
    /\ fout' = ObjectAssign(fout,
                 [values |-> <<[url |-> "headers", status |-> "Status"]>>
                             \o fout.analysisResults])
    /\ UNCHANGED <<fin, exceptF>>

\* ------------------------------------------- one sheet's schedule in time
\* Times are in minutes.  The sheet is scheduled once and its timer fires;
\* nothing else touches the sheet.
ScheduleIntervals == {"5m", "30m", "1h", "4h", "8h", "12h", "1d", "3d", "1w", "1M", "manual"}

\* minutes in a day
Day == 1440

\* the fixed steps of calculateNextRun and calculateNextRunTime; an interval
\* that is none of the cases gets the default of one hour
IntervalMinutes(interval) ==
    CASE interval = "5m" -> 5
      [] interval = "30m" -> 30
      [] interval = "1h" -> 60
      [] interval = "4h" -> 4 * 60
      [] interval = "8h" -> 8 * 60
      [] interval = "12h" -> 12 * 60
      [] interval = "1d" -> Day
      [] interval = "3d" -> 3 * Day
      [] interval = "1w" -> 7 * Day
      [] OTHER -> 60

\* setMonth(getMonth() + 1) moves the date by the length of a month
MonthDays == {28, 29, 30, 31}

\* SchedulerService.calculateNextRun(interval) at time t: the times it can
\* return
calculateNextRun(interval, t) ==
    IF interval = "1M" THEN {t + d * Day : d \in MonthDays}
    ELSE {t + IntervalMinutes(interval)}

\* GoogleSheetModel.calculateNextScan(status, interval) at time t, with
\* calculateNextRunTime: '1M' is 30 days here
calculateNextScan(status, interval, t) ==
    IF status = "checked" /\ interval # "manual"
    THEN (IF interval = "1M" THEN t + 30 * Day ELSE t + IntervalMinutes(interval))
    ELSE Null

\* the largest delay setTimeout takes, 2^31 - 1 ms, in whole minutes
TIMEOUT_MAX == 35791

\* setTimeout(callback, delay) at time t: the runtime replaces a delay above
\* TIMEOUT_MAX by 1 ms, which is within the current minute
setTimeout(timers, t, delay) ==
    Append(timers, [due |-> IF delay > TIMEOUT_MAX THEN t ELSE t + delay, armed |-> TRUE])

ArmedTimers == {i \in DOMAIN ttimers : ttimers[i].armed}

\* scheduleSheet(sheetId, projectId, interval) for the sheet without a task:
\* cancelSheet finds nothing, the task is stored, the timer armed and next_scan
\* written
ScheduleSheetAt(interval) ==
    /\ ttask = NoTask
    /\ tpc = "idle"
    /\ tsheet.status = "not_started"
    /\ \E nextRunTime \in calculateNextRun(interval, tclock) :
         /\ nextRunTime - tclock > 0
         /\ ttimers' = setTimeout(ttimers, tclock, nextRunTime - tclock)
         /\ ttask' = [interval |-> interval, nextRun |-> nextRunTime,
                      timerId |-> Len(ttimers) + 1, runCount |-> 0, lastRun |-> Null]
         /\ tsheet' = [tsheet EXCEPT !.schedule_interval = interval,
                                     !.next_scan = nextRunTime]
    /\ UNCHANGED <<tclock, tpc, exceptT>>

\* time passes until the next armed timer is due
TimerWait ==
    /\ tpc \in {"idle", "rearmed", "caught"}
    /\ \E i \in ArmedTimers :
         /\ ttimers[i].due > tclock
         /\ \A k \in ArmedTimers : ttimers[i].due <= ttimers[k].due
         /\ tclock' = ttimers[i].due
    /\ UNCHANGED <<ttask, ttimers, tsheet, tpc, exceptT>>

\* a minute passes while analyzeGoogleSheet runs
AnalysisTakesTime ==
    /\ tpc = "analysing"
    /\ tclock = ttask.lastRun
    /\ tclock' = tclock + 1
    /\ UNCHANGED <<ttask, ttimers, tsheet, tpc, exceptT>>

\* the timer goes off: executeScheduledAnalysis finds the task, counts the run
\* and calls analyzeGoogleSheet, which sets the sheet analyzing
ExecuteScheduledAnalysis(i) ==
    /\ tpc \in {"idle", "rearmed", "caught"}
    /\ i \in ArmedTimers
    /\ ttimers[i].due <= tclock
    /\ ttask # NoTask
    /\ ttask.runCount < MaxScheduledRuns
    /\ ttimers' = [ttimers EXCEPT ![i].armed = FALSE]
    /\ ttask' = [ttask EXCEPT !.runCount = @ + 1, !.lastRun = tclock]
    /\ tsheet' = [tsheet EXCEPT !.status = "analyzing"]
    /\ tpc' = "analysing"
    /\ UNCHANGED <<tclock, exceptT>>

\* analyzeGoogleSheet ends: updateScanInfo(sheetId, 'checked', scan_count + 1,
\* schedule_interval)
AnalysisChecked ==
    /\ tpc = "analysing"
    /\ tsheet' = [tsheet EXCEPT !.status = "checked",
                                !.next_scan = calculateNextScan("checked",
                                                  tsheet.schedule_interval, tclock)]
    /\ tpc' = "rearm"
    /\ UNCHANGED <<tclock, ttask, ttimers, exceptT>>

\* analyzeGoogleSheet throws: its catch sets the status error, the catch of
\* executeScheduledAnalysis arms nothing
AnalysisThrows ==
    /\ tpc = "analysing"
    /\ faults < MaxFaults
    /\ faults' = faults + 1
    /\ emitted' = Emit(Emit(emitted, SheetProject, "sheets_analysis_error"),
                       SheetProject, "sheets_analysis_error")
    /\ tsheet' = [tsheet EXCEPT !.status = "error"]
    /\ tpc' = "caught"
    /\ UNCHANGED <<tclock, ttask, ttimers, qOnly, bOnly, sOnly, hOnly, aOnly, fOnly, gOnly,
                   rOnly, jOnly, dOnly, links>>

\* executeScheduledAnalysis after the analysis: calculateNextRun, task.nextRun,
\* the new timer, task.timerId, and next_scan written to the sheet
Rearm ==
    /\ tpc = "rearm"
    /\ \E nextRunTime \in calculateNextRun(ttask.interval, tclock) :
         /\ nextRunTime - tclock > 0
         /\ ttimers' = setTimeout(ttimers, tclock, nextRunTime - tclock)
         /\ ttask' = [ttask EXCEPT !.nextRun = nextRunTime, !.timerId = Len(ttimers) + 1]
         /\ tsheet' = [tsheet EXCEPT !.next_scan = nextRunTime]
    /\ tpc' = "rearmed"
    /\ UNCHANGED <<tclock, exceptT>>

\* executeScheduledAnalysis after the analysis, the write of next_scan throws:
\* the timer is armed, the catch emits sheets_analysis_error
RearmWriteFails ==
    /\ tpc = "rearm"
    /\ faults < MaxFaults
    /\ faults' = faults + 1
    /\ emitted' = Emit(emitted, SheetProject, "sheets_analysis_error")
    /\ \E nextRunTime \in calculateNextRun(ttask.interval, tclock) :
         /\ nextRunTime - tclock > 0
         /\ ttimers' = setTimeout(ttimers, tclock, nextRunTime - tclock)
         /\ ttask' = [ttask EXCEPT !.nextRun = nextRunTime, !.timerId = Len(ttimers) + 1]
    /\ tpc' = "caught"
    /\ UNCHANGED <<tclock, tsheet, qOnly, bOnly, sOnly, hOnly, aOnly, fOnly, gOnly,
                   rOnly, jOnly, dOnly, links>>

\* ---------------------------------------------------- scrapePageWithRetry
\* what scrapePage can come to: a page, the proxy's 403, another HTTP error,
\* the abort after the timeout, or no request at all for want of an API key
ProxyResponses == {"ok", "403", "500", "timeout", "no key"}

\* the call starts: attempt = 1 and the loop condition attempt <= RETRY_ATTEMPTS
ScrapePageWithRetry ==
    /\ dpc = "idle"
    /\ dattempt' = 1
    /\ dpc' = IF 1 <= dmax THEN "attempt" ELSE "done"
    /\ dret' = IF 1 <= dmax THEN dret ELSE [success |-> FALSE, lastError |-> "undefined"]
    /\ UNCHANGED <<dmax, dkey, dlog, exceptD>>

\* One turn of the loop that waits after every failed attempt.
ScrapePageWaitsAlways(response) ==
    /\ dpc = "attempt"
    /\ dkey <=> response # "no key"
    /\ dlog' = Append(dlog, [kind |-> "attempt", attempt |-> dattempt, request |-> dkey,
                             response |-> response, success |-> response = "ok"])
    /\ IF response = "ok"
       THEN /\ dret' = [success |-> TRUE, attempt |-> dattempt]
            /\ dpc' = "done"
       ELSE /\ dret' = dret
            /\ dpc' = "wait"
    /\ UNCHANGED <<dmax, dkey, dattempt, exceptD>>

\* one turn of the loop: scrapePage (which makes no request without an API
\* key), return on success; after a failure the wait when attempt <
\* RETRY_ATTEMPTS, else attempt++ ends the loop and the failure is returned
ScrapePage(response) ==
    /\ dpc = "attempt"
    /\ dkey <=> response # "no key"
    /\ dlog' = Append(dlog, [kind |-> "attempt", attempt |-> dattempt, request |-> dkey,
                             response |-> response, success |-> response = "ok"])
    /\ IF response = "ok"
       THEN /\ dret' = [success |-> TRUE, attempt |-> dattempt]
            /\ dpc' = "done"
            /\ dattempt' = dattempt
       ELSE IF dattempt < dmax
       THEN /\ dret' = dret
            /\ dpc' = "wait"
            /\ dattempt' = dattempt
       ELSE /\ dret' = [success |-> FALSE, lastError |-> response]
            /\ dpc' = "done"
            /\ dattempt' = dattempt + 1
    /\ UNCHANGED <<dmax, dkey, exceptD>>

\* the wait of attempt * 3000 ms (seconds here), then attempt++ and the loop
\* condition
Wait ==
    /\ dpc = "wait"
    /\ dlog' = Append(dlog, [kind |-> "wait", attempt |-> dattempt, delay |-> dattempt * 3])
    /\ dattempt' = dattempt + 1
    /\ dpc' = IF dattempt + 1 <= dmax THEN "attempt" ELSE "done"
    /\ dret' = IF dattempt + 1 <= dmax THEN dret
               ELSE [success |-> FALSE, lastError |-> dlog[Len(dlog)].response]
    /\ UNCHANGED <<dmax, dkey, exceptD>>

\* ------------------------------------------------- one job, start to end
\* What LinkAnalyzer.analyzeLink can hand to a worker: a LinkAnalysisResult
\* with or without its optional fields, or an exception.
Threw == [threw |-> TRUE]

\* result: null of a failed job
NullResult == [null |-> TRUE]

\* no row under the id
NoRow == [none |-> TRUE]

OptionalFields == {"canonicalUrl", "fullATag", "nonIndexableReason"}

LinkAnalysisResult(status) ==
    [status |-> status,
     responseCode |-> IF status = "OK" THEN "200" ELSE "404",
     indexable |-> IF status = "OK" THEN "true" ELSE "false",
     linkType |-> IF status = "OK" THEN "dofollow" ELSE "not_found",
     loadTime |-> "1s", canonicalUrl |-> "canonical", fullATag |-> "<a>",
     nonIndexableReason |-> "noindex"]

LinkAnalysisResults ==
    {Fields(LinkAnalysisResult(status), (DOMAIN LinkAnalysisResult(status) \ OptionalFields) \cup opt) :
        status \in {"OK", "Problem"}, opt \in SUBSET OptionalFields}

\* the columns ManualLinkModel.update has a branch for
UpdateColumns == {"status", "response_code", "indexable", "link_type", "canonical_url",
                  "load_time", "checked_at"}

\* ManualLinkModel.update(id, updateData): SET of the fields that are not
\* undefined and that it has a branch for, checked_at = CURRENT_TIMESTAMP when
\* it is not given, WHERE id = $n
update(rows, id, updateData) ==
    LET fields == DOMAIN updateData \cap UpdateColumns
    IN  IF id \notin DOMAIN rows \/ fields = {} THEN rows
        ELSE [rows EXCEPT ![id] =
                [k \in DOMAIN @ |->
                    IF k \in fields THEN updateData[k]
                    ELSE IF k = "checked_at" THEN "now"
                    ELSE @[k]]]

\* the column a field of the verdict goes to
ColumnOf ==
    [status |-> "status", responseCode |-> "response_code", indexable |-> "indexable",
     linkType |-> "link_type", canonicalUrl |-> "canonical_url", loadTime |-> "load_time",
     fullATag |-> "full_a_tag", nonIndexableReason |-> "non_indexable_reason"]

\* processLinkAnalysisJob: the object it passes to ManualLinkModel.update; the
\* optional fields are spread in when they are truthy
JobUpdateData(result) ==
    [c \in {ColumnOf[f] : f \in DOMAIN result} \cup {"checked_at"} |->
        IF c = "checked_at" THEN "now"
        ELSE result[CHOOSE f \in DOMAIN result : ColumnOf[f] = c]]

\* saveResult: the object it passes to ManualLinkModel.update; result?.x is
\* undefined for a field the result lacks and for a null result
SaveUpdateData(success, result) ==
    LET given == IF result = NullResult THEN {} ELSE DOMAIN result \ {"status"}
    IN  [c \in {ColumnOf[f] : f \in given} \cup {"status", "checked_at"} |->
            CASE c = "status" -> IF success THEN "OK" ELSE "Problem"
              [] c = "checked_at" -> "now"
              [] OTHER -> result[CHOOSE f \in given : ColumnOf[f] = c]]

RowOf(rows, id) == IF id \in DOMAIN rows THEN rows[id] ELSE NoRow

\* BullMQService.processLinkAnalysisJob with its sendRealTimeUpdate and
\* checkProjectAnalysisCompletion, for one job: out is what analyzeLink does,
\* writeFails whether ManualLinkModel.update raises.  The job is active
\* while its processor runs, so getActive always holds a job of its project
\* and type and analysis_completed is not emitted.
ProcessLinkAnalysisJob(job, out, writeFails) ==
    /\ job \in jbull
    /\ writeFails => faults < MaxFaults /\ out # Threw
    /\ LET writes_ == out # Threw /\ job.type = "manual" /\ "linkId" \in DOMAIN job
           success == out # Threw /\ ~(writes_ /\ writeFails)
           result == IF success THEN out ELSE NullResult
       IN  /\ writeFails => writes_
           /\ links' = IF writes_ /\ ~writeFails
                       THEN update(links, job.linkId, JobUpdateData(out))
                       ELSE links
           /\ faults' = IF writeFails THEN faults + 1 ELSE faults
           /\ jverdicts' = IF out # Threw
                           THEN jverdicts \cup {[linkId |-> job.linkId, result |-> out]}
                           ELSE jverdicts
           /\ jevents' = IF job.type = "manual" /\ "linkId" \in DOMAIN job
                         THEN jevents \cup {[event |-> "link_updated", linkId |-> job.linkId,
                                             status |-> IF result = NullResult THEN "Problem"
                                                        ELSE result.status]}
                         ELSE jevents
           /\ emitted' = IF job.type = "manual" /\ "linkId" \in DOMAIN job
                         THEN Emit(emitted, job.projectId, "link_updated")
                         ELSE emitted
           /\ jleft' = jleft \cup {[job |-> job, by |-> "processLinkAnalysisJob",
                                    success |-> success, result |-> result,
                                    failed |-> out = Threw \/ writeFails,
                                    row |-> RowOf(links', job.linkId)]}
    /\ jbull' = jbull \ {job}
    /\ UNCHANGED <<jitems, results, exceptJ>>

\* QueueService.processNextItem for one item: the item goes onto the processing
\* list and off it again around analyzeLink (LinkAnalyzer for a manual item, the
\* fixed {status: 'OK'} for a google_sheets item), then saveResult (the row
\* update and the lPush to the results list; a failed write is swallowed and
\* skips the lPush), sendRealTimeUpdate and checkProjectAnalysisCompletion
ProcessNextItem(item, out, writeFails) ==
    /\ item \in jitems
    /\ item.type = "google_sheets" => out = [status |-> "OK"]
    /\ writeFails => faults < MaxFaults
    /\ LET success == out # Threw
           result == IF success THEN out ELSE NullResult
           writes_ == item.type = "manual" /\ "linkId" \in DOMAIN item
       IN  /\ writeFails => writes_
           /\ links' = IF writes_ /\ ~writeFails
                       THEN update(links, item.linkId, SaveUpdateData(success, result))
                       ELSE links
           /\ results' = IF writeFails THEN results
                         ELSE SubSeq(<<item.linkId>> \o results, 1,
                                     IF Len(results) + 1 > 1000 THEN 1000 ELSE Len(results) + 1)
           /\ faults' = IF writeFails THEN faults + 1 ELSE faults
           /\ jverdicts' = IF item.type = "manual" /\ out # Threw
                           THEN jverdicts \cup {[linkId |-> item.linkId, result |-> out]}
                           ELSE jverdicts
           /\ jevents' = jevents \cup
                {IF item.type = "manual"
                 THEN [event |-> "link_updated", linkId |-> item.linkId,
                       status |-> IF success THEN result.status ELSE "Problem"]
                 ELSE [event |-> "sheets_link_updated", linkId |-> item.linkId,
                       status |-> IF success THEN "OK" ELSE "Problem"]}
           /\ emitted' =
                LET sent == Emit(emitted, item.projectId, UpdateEvent(item.type))
                    busy == \E i \in jitems \ {item} :
                               i.projectId = item.projectId /\ i.type = item.type
                    open == {l \in DOMAIN links' :
                               /\ links'[l].project = item.projectId
                               /\ links'[l].type = item.type
                               /\ links'[l].status \in {"pending", "checking"}}
                IN  IF ~busy /\ open = {}
                    THEN Emit(sent, item.projectId, CompletedEvent(item.type))
                    ELSE sent
           /\ jleft' = jleft \cup {[job |-> item, by |-> "processNextItem",
                                    success |-> success, result |-> result,
                                    failed |-> out = Threw \/ writeFails,
                                    row |-> RowOf(links', item.linkId)]}
    /\ jitems' = jitems \ {item}
    /\ UNCHANGED <<jbull, exceptJ>>

\* ------------------------------------------- overlapping runs of one sheet
\* Nothing keeps a second analyzeGoogleSheet of a sheet from starting while
\* one is in flight (a timer fire does not look at the status).  Runs are
\* numbered in the order they start.
\* ManualLinkModel.update(id, ...) of run r: UPDATE ... WHERE id = $n changes
\* the row if it is still there
RowUpdate(r, id, status) ==
    /\ links' = IF id \in DOMAIN links
                THEN [links EXCEPT ![id].status = status]
                ELSE links
    /\ wlog' = wlog \cup {[run |-> r, row |-> id, hit |-> id \in DOMAIN links]}

\* analyzeGoogleSheet is called: findById, status analyzing, readSheetData
RunStart(sheetId) ==
    /\ Len(aruns) < MaxOverlap
    /\ aruns' = Append(aruns, [sheet |-> sheetId, pc |-> "delete", createdLinks |-> <<>>,
                               idx |-> 1])
    /\ UNCHANGED <<ajobs, wlog, madeBy, nextRow, links, exceptR>>

\* deleteByProjectIdAndType(project_id, 'google_sheets')
RunDelete(r) ==
    /\ aruns[r].pc = "delete"
    /\ links' = [l \in {k \in DOMAIN links : ~(links[k].project = SheetProject
                                              /\ links[k].type = "google_sheets")}
                    |-> links[l]]
    /\ aruns' = [aruns EXCEPT ![r].pc = "create"]
    /\ UNCHANGED <<ajobs, wlog, madeBy, nextRow, exceptR>>

\* createMany that gives the rows of every run the same ids.
RunCreateSameIds(r) ==
    /\ aruns[r].pc = "create"
    /\ LET ids == 1..RunLinks
       IN  /\ links' = [l \in DOMAIN links \cup ids |->
                           IF l \in ids
                           THEN [project |-> SheetProject, type |-> "google_sheets",
                                 url |-> l, status |-> "pending"]
                           ELSE links[l]]
           /\ madeBy' = [l \in DOMAIN madeBy \cup ids |-> IF l \in ids THEN r ELSE madeBy[l]]
           /\ aruns' = [aruns EXCEPT ![r].pc = "enqueue",
                                     ![r].createdLinks = [i \in 1..RunLinks |-> i],
                                     ![r].idx = 1]
    /\ nextRow' = nextRow
    /\ UNCHANGED <<ajobs, wlog, exceptR>>

\* createMany: INSERT ... RETURNING *, each row with a new gen_random_uuid()
RunCreate(r) ==
    /\ aruns[r].pc = "create"
    /\ LET ids == nextRow..(nextRow + RunLinks - 1)
       IN  /\ links' = [l \in DOMAIN links \cup ids |->
                           IF l \in ids
                           THEN [project |-> SheetProject, type |-> "google_sheets",
                                 url |-> l - nextRow + 1, status |-> "pending"]
                           ELSE links[l]]
           /\ madeBy' = [l \in DOMAIN madeBy \cup ids |-> IF l \in ids THEN r ELSE madeBy[l]]
           /\ aruns' = [aruns EXCEPT ![r].pc = "enqueue",
                                     ![r].createdLinks = [i \in 1..RunLinks |-> nextRow + i - 1],
                                     ![r].idx = 1]
    /\ nextRow' = nextRow + RunLinks
    /\ UNCHANGED <<ajobs, wlog, exceptR>>

\* one turn of the loop that adds createdLinks to the queue
RunEnqueue(r) ==
    /\ aruns[r].pc = "enqueue"
    /\ ajobs' = ajobs \cup {[run |-> r, linkId |-> aruns[r].createdLinks[aruns[r].idx]]}
    /\ aruns' = IF aruns[r].idx = RunLinks
                THEN [aruns EXCEPT ![r].pc = "checking", ![r].idx = 1]
                ELSE [aruns EXCEPT ![r].idx = @ + 1]
    /\ UNCHANGED <<wlog, madeBy, nextRow, links, exceptR>>

\* the inline loop: update(link.id, {status: 'checking'})
RunChecking(r) ==
    /\ aruns[r].pc = "checking"
    /\ RowUpdate(r, aruns[r].createdLinks[aruns[r].idx], "checking")
    /\ aruns' = [aruns EXCEPT ![r].pc = "save"]
    /\ UNCHANGED <<ajobs, madeBy, nextRow, exceptR>>

\* the inline loop: analyzeLink returned (or threw), update(link.id, verdict)
RunSave(r, status) ==
    /\ aruns[r].pc = "save"
    /\ RowUpdate(r, aruns[r].createdLinks[aruns[r].idx], status)
    /\ aruns' = IF aruns[r].idx = RunLinks
                THEN [aruns EXCEPT ![r].pc = "done"]
                ELSE [aruns EXCEPT ![r].pc = "checking", ![r].idx = @ + 1]
    /\ UNCHANGED <<ajobs, madeBy, nextRow, exceptR>>

\* a worker processed a job of a run: saveResult updates the row of a
\* 'manual' item only, so a 'google_sheets' item changes no row
JobSave(j) ==
    /\ j \in ajobs
    /\ ajobs' = ajobs \ {j}
    /\ UNCHANGED <<aruns, wlog, madeBy, nextRow, links, exceptR>>

\* ---------------------------------------------------------------- the system
LinkRows(n) ==
    [l \in 1..n |-> [project |-> IF l <= 2 THEN 1 ELSE 2, type |-> "manual",
                     url |-> l, status |-> "pending"]]

InitBullMQ(nSlots) ==
    /\ bjobs = <<>>
    /\ bdone = <<>>
    /\ bseq = 0
    /\ bpc = [w \in 1..nSlots |-> "idle"]
    /\ bjob = [w \in 1..nSlots |-> <<>>]
    /\ bres = [w \in 1..nSlots |-> [success |-> TRUE, status |-> "none"]]
    /\ bseen = [w \in 1..nSlots |-> FALSE]
    /\ ppc = "idle"
    /\ plinks = <<>>
    /\ puser = "none"
    /\ pidx = 1
    /\ padd = [id |-> <<>>, projectId |-> 0, found |-> "none"]
    /\ runs = [p \in Projects |-> 0]
    /\ writes = [l \in DOMAIN links |-> 0]

\* The scheduler before initialize, over the given google_sheets rows.
InitScheduler(rows) ==
    /\ sheetsDb = rows
    /\ tasks = [s \in DOMAIN rows |-> 0]
    /\ objs = <<>>
    /\ tmrs = <<>>
    /\ armed = {}
    /\ fires = {}
    /\ pending = {}
    /\ initq = <<>>
    /\ initpc = "off"
    /\ isInitialized = FALSE
    /\ isShuttingDown = FALSE
    /\ ncalls = 0
    /\ nfires = 0
    /\ cancelled = [s \in DOMAIN rows |-> FALSE]
    /\ reported = <<>>

InitSheetRun ==
    /\ spc = "idle"
    /\ slinks = <<>>
    /\ sidx = 1
    /\ sruns = 0

\* No sheet stored.
InitRanges ==
    /\ ranges = <<>>
    /\ nreq = 0

\* No concurrent sheet run.
InitRuns ==
    /\ aruns = <<>>
    /\ ajobs = {}
    /\ wlog = {}
    /\ madeBy = <<>>
    /\ nextRow = 1

\* No job in either queue.
InitJobs ==
    /\ jbull = {}
    /\ jitems = {}
    /\ jleft = {}
    /\ jevents = {}
    /\ jverdicts = {}

\* No schedule for the sheet.
InitTimed ==
    /\ tclock = 0
    /\ ttask = NoTask
    /\ ttimers = <<>>
    /\ tsheet = [status |-> "not_started", schedule_interval |-> "1h", next_scan |-> Null]
    /\ tpc = "idle"

\* No scrapePageWithRetry call.
InitRetry ==
    /\ dpc = "idle"
    /\ dmax = RETRY_ATTEMPTS
    /\ dkey = TRUE
    /\ dattempt = 0
    /\ dlog = <<>>
    /\ dret = NoResponse

\* No helper under test.
InitHelpers ==
    /\ fpc = {}
    /\ fin = <<>>
    /\ fout = <<>>

\* No analyzeLink call yet.
InitAnalyzer ==
    /\ apc = "idle"
    /\ abrowser = FALSE
    /\ acode = 0
    /\ ares = <<>>
    /\ averdict = NoVerdict
    /\ apath = "none"
    /\ acalls = 0

InitRedis(userTable, rows, nWorkers) ==
    /\ now = 0
    /\ users = userTable
    /\ links = rows
    /\ queue = {}
    /\ processing = <<>>
    /\ results = <<>>
    /\ wpc = [w \in 1..nWorkers |-> "idle"]
    /\ witem = [w \in 1..nWorkers |-> NoItem]
    /\ wres = [w \in 1..nWorkers |-> [success |-> TRUE, status |-> "none"]]
    /\ wseen = [w \in 1..nWorkers |-> FALSE]
    /\ wsnap = [w \in 1..nWorkers |-> <<>>]
    /\ emitted = [k \in Projects \X EventKinds |-> 0]
    /\ nextId = 1
    /\ entered = {}
    /\ analysed = <<>>
    /\ restarts = 0
    /\ faults = 0

\* processNextItem: lPush(PROCESSING_KEY) throws; the catch of processNextItem
\* logs the error and the loop goes on with the next item
WLPushFail(w) ==
    /\ wpc[w] = "popped"
    /\ faults < MaxFaults
    /\ faults' = faults + 1
    /\ wpc' = [wpc EXCEPT ![w] = "idle"]
    /\ witem' = [witem EXCEPT ![w] = NoItem]
    /\ UNCHANGED <<now, users, links, queue, processing, results, wres, wseen, wsnap,
                   emitted, nextId, entered, analysed, restarts, exceptQ>>

\* processNextItem: lRem(PROCESSING_KEY) throws; same catch
WLRemFail(w) ==
    /\ wpc[w] = "analysed"
    /\ faults < MaxFaults
    /\ faults' = faults + 1
    /\ wpc' = [wpc EXCEPT ![w] = "idle"]
    /\ witem' = [witem EXCEPT ![w] = NoItem]
    /\ UNCHANGED <<now, users, links, queue, processing, results, wres, wseen, wsnap,
                   emitted, nextId, entered, analysed, restarts, exceptQ>>

\* A worker container stops (crash, redeploy, scale) and starts again: what its
\* loop held is gone, and QueueService.initialize runs clearProcessingQueue.
Restart(w) ==
    /\ restarts < MaxRestarts
    /\ restarts' = restarts + 1
    /\ wpc' = [wpc EXCEPT ![w] = "init_read"]
    /\ witem' = [witem EXCEPT ![w] = NoItem]
    /\ wsnap' = [wsnap EXCEPT ![w] = <<>>]
    /\ UNCHANGED <<now, users, links, queue, processing, results, wres, wseen,
                   emitted, nextId, entered, analysed, faults, exceptQ>>

\* clearProcessingQueue: lRange(PROCESSING_KEY, 0, -1)
ClearRead(w) ==
    /\ wpc[w] = "init_read"
    /\ wsnap' = [wsnap EXCEPT ![w] = processing]
    /\ wpc' = [wpc EXCEPT ![w] = IF processing = <<>> THEN "init_del" ELSE "init_add"]
    /\ UNCHANGED <<now, users, links, queue, processing, results, witem, wres, wseen,
                   emitted, nextId, entered, analysed, restarts, faults, exceptQ>>

\* clearProcessingQueue: one turn of the loop, zAdd of the item under the score
\* of its priority and createdAt
ClearAdd(w) ==
    /\ wpc[w] = "init_add"
    /\ queue' = queue \cup {Head(wsnap[w])}
    /\ wsnap' = [wsnap EXCEPT ![w] = Tail(@)]
    /\ wpc' = [wpc EXCEPT ![w] = IF Tail(wsnap[w]) = <<>> THEN "init_del" ELSE "init_add"]
    /\ UNCHANGED <<now, users, links, processing, results, witem, wres, wseen,
                   emitted, nextId, entered, analysed, restarts, faults, exceptQ>>

\* clearProcessingQueue: del(PROCESSING_KEY); initialize then starts the loop
ClearDel(w) ==
    /\ wpc[w] = "init_del"
    /\ processing' = <<>>
    /\ wpc' = [wpc EXCEPT ![w] = "idle"]
    /\ UNCHANGED <<now, users, links, queue, results, witem, wres, wseen, wsnap,
                   emitted, nextId, entered, analysed, restarts, faults, exceptQ>>

\* The producer enqueues the link rows in row order, each once.
NextLink ==
    {l \in DOMAIN links :
        /\ \A j \in entered : j.linkId # l
        /\ \A k \in DOMAIN links : k < l => \E j \in entered : j.linkId = k}

WorkerStep(w) ==
    \/ WPop(w)
    \/ WLPush(w)
    \/ WAnalyse(w)
    \/ WLRem(w)
    \/ WSave(w)
    \/ WEmitUpdate(w)
    \/ WCheckProcessing(w)
    \/ WCheckRows(w)

\* Lease order: users of every plan enqueue while the clock runs; one worker loop.
InitLease ==
    /\ InitRedis([u \in Plans |-> u], LinkRows(LeaseLinks), 1)
    /\ InitBullMQ(0)
    /\ InitSheetRun
    /\ InitAnalyzer
    /\ InitHelpers
    /\ InitRanges
    /\ InitRuns
    /\ InitJobs
    /\ InitTimed
    /\ InitRetry
    /\ InitScheduler([s \in {} |-> 0])

NextLease ==
    \/ \E u \in DOMAIN users, l \in NextLink, d \in {0, 1, ScoreWeight} : Enqueue(u, l, d)
    \/ \E w \in Workers : WorkerStep(w)

SpecLease == InitLease /\ [][NextLease]_vars

\* The Redis queue under concurrency: one user's batch of link rows, several
\* worker containers, restarts and failing Redis commands.
InitQ ==
    /\ InitRedis([u \in {"pro"} |-> u], LinkRows(NumLinks), NumWorkers)
    /\ InitBullMQ(0)
    /\ InitSheetRun
    /\ InitAnalyzer
    /\ InitHelpers
    /\ InitRanges
    /\ InitRuns
    /\ InitJobs
    /\ InitTimed
    /\ InitRetry
    /\ InitScheduler([s \in {} |-> 0])

NextQ ==
    \/ \E u \in DOMAIN users, l \in NextLink : Enqueue(u, l, 0)
    \/ \E w \in Workers : WorkerStep(w)
    \/ \E w \in Workers : WLPushFail(w)
    \/ \E w \in Workers : WLRemFail(w)
    \/ \E w \in Workers : Restart(w)
    \/ \E w \in Workers : ClearRead(w)
    \/ \E w \in Workers : ClearAdd(w)
    \/ \E w \in Workers : ClearDel(w)

SpecQ == InitQ /\ [][NextQ]_vars

\* The BullMQ batch path: one project whose link rows may share a URL, checkLinks
\* requests, the Worker's processor slots, failing calls.
BullRows(f) ==
    [l \in DOMAIN f |-> [project |-> 1, type |-> "manual", url |-> f[l], status |-> "pending"]]

InitBull ==
    /\ \E f \in [1..BullLinks -> 1..BullUrls] : InitRedis([u \in {"pro"} |-> u], BullRows(f), 0)
    /\ InitBullMQ(BullWorkers)
    /\ InitSheetRun
    /\ InitAnalyzer
    /\ InitHelpers
    /\ InitRanges
    /\ InitRuns
    /\ InitJobs
    /\ InitTimed
    /\ InitRetry
    /\ InitScheduler([s \in {} |-> 0])

NextBull ==
    \/ \E p \in Projects : PCheckLinks(p)
    \/ PReset
    \/ PResetFail
    \/ PEmitStarted
    \/ PAdd
    \/ PAddFail
    \/ \E w \in BSlots : BFetch(w)
    \/ \E w \in BSlots : BAnalyse(w)
    \/ \E w \in BSlots : BUpdateRow(w)
    \/ \E w \in BSlots : BUpdateRowFail(w)
    \/ \E w \in BSlots : BEmitUpdate(w)
    \/ \E w \in BSlots : BCheckCompletion(w)
    \/ \E w \in BSlots : BReturn(w)

SpecBull == InitBull /\ [][NextBull]_vars

\* The batch path with one processor slot and no failing calls: the producer's
\* queue.add against the jobs of this run and of earlier runs.
InitDedup ==
    /\ \E f \in [1..BullLinks -> 1..BullUrls] : InitRedis([u \in {"pro"} |-> u], BullRows(f), 0)
    /\ InitBullMQ(1)
    /\ InitSheetRun
    /\ InitAnalyzer
    /\ InitHelpers
    /\ InitRanges
    /\ InitRuns
    /\ InitJobs
    /\ InitTimed
    /\ InitRetry
    /\ InitScheduler([s \in {} |-> 0])

NextDedup ==
    \/ \E p \in Projects : PCheckLinks(p)
    \/ PReset
    \/ PEmitStarted
    \/ PAdd
    \/ \E w \in BSlots : BFetch(w)
    \/ \E w \in BSlots : BAnalyse(w)
    \/ \E w \in BSlots : BUpdateRow(w)
    \/ \E w \in BSlots : BEmitUpdate(w)
    \/ \E w \in BSlots : BCheckCompletion(w)
    \/ \E w \in BSlots : BReturn(w)

SpecDedup == InitDedup /\ [][NextDedup]_vars

\* The batch path for two projects whose link rows may carry the same URL.
CrossRows(f) ==
    [l \in DOMAIN f |-> [project |-> IF l = 1 THEN 1 ELSE 2, type |-> "manual",
                         url |-> f[l], status |-> "pending"]]

InitCross ==
    /\ \E f \in [1..BullLinks -> 1..BullUrls] : InitRedis([u \in {"pro"} |-> u], CrossRows(f), 0)
    /\ InitBullMQ(1)
    /\ InitSheetRun
    /\ InitAnalyzer
    /\ InitHelpers
    /\ InitRanges
    /\ InitRuns
    /\ InitJobs
    /\ InitTimed
    /\ InitRetry
    /\ InitScheduler([s \in {} |-> 0])

SpecCross == InitCross /\ [][NextDedup]_vars

\* The batch path requested by users of every plan.
InitPlan ==
    /\ \E f \in [1..BullLinks -> 1..BullUrls] : InitRedis([u \in Plans |-> u], BullRows(f), 0)
    /\ InitBullMQ(1)
    /\ InitSheetRun
    /\ InitAnalyzer
    /\ InitHelpers
    /\ InitRanges
    /\ InitRuns
    /\ InitJobs
    /\ InitTimed
    /\ InitRetry
    /\ InitScheduler([s \in {} |-> 0])

SpecPlan == InitPlan /\ [][NextDedup]_vars

\* A sheet run next to the worker loops that serve the Redis queue.
InitSheet ==
    /\ InitRedis([u \in {"pro"} |-> u], <<>>, SheetWorkers)
    /\ InitBullMQ(0)
    /\ InitSheetRun
    /\ InitAnalyzer
    /\ InitHelpers
    /\ InitRanges
    /\ InitRuns
    /\ InitJobs
    /\ InitTimed
    /\ InitRetry
    /\ InitScheduler([s \in {} |-> 0])

NextSheet ==
    \/ SBegin
    \/ SDelete
    \/ SCreate
    \/ SEnqueue
    \/ SEmitStarted
    \/ SChecking
    \/ SFinal
    \/ SFinish
    \/ SFail
    \/ \E w \in Workers : WorkerStep(w)

SpecSheet == InitSheet /\ [][NextSheet]_vars

\* The scheduler of one process over the google_sheets rows.
InitSched ==
    /\ InitRedis([u \in {"pro"} |-> u], <<>>, 0)
    /\ InitBullMQ(0)
    /\ InitSheetRun
    /\ InitAnalyzer
    /\ InitHelpers
    /\ InitRanges
    /\ InitRuns
    /\ InitJobs
    /\ InitTimed
    /\ InitRetry
    /\ \E iv \in [1..NumSheets -> Intervals] :
         InitScheduler([s \in 1..NumSheets |-> [status |-> "not_started", interval |-> iv[s]]])

NextSched ==
    \/ \E s \in DOMAIN sheetsDb, past \in BOOLEAN : ScheduleSheet(s, past)
    \/ \E c \in pending : ScheduleResume(c)
    \/ \E s \in DOMAIN sheetsDb : CancelSheet(s)
    \/ \E t \in armed : TimerFire(t)
    \/ \E f \in fires : FireAnalysed(f)
    \/ \E f \in fires : FireFail(f)
    \/ \E f \in fires : FireRearm(f)
    \/ \E f \in fires : FireUpdated(f)
    \/ \E f \in fires : FireUpdateFail(f)
    \/ \E f \in fires : FireCatch(f)
    \/ Shutdown
    \/ Initialize
    \/ \E past \in BOOLEAN : InitSchedule(past)
    \/ InitDone

SpecSched == InitSched /\ [][NextSched]_vars

\* The scheduler and the sheet endpoints that do not go through it.
NextApi ==
    \/ NextSched
    \/ \E s \in DOMAIN sheetsDb : CancelAnalysis(s)
    \/ \E s \in DOMAIN sheetsDb : EndpointAnalyze(s)

SpecApi == InitSched /\ [][NextApi]_vars

\* Calls of LinkAnalyzer.analyzeLink, one after the other, over every page,
\* response and proxy answer.
InitVerdict ==
    /\ InitRedis([u \in {"pro"} |-> u], <<>>, 0)
    /\ InitBullMQ(0)
    /\ InitSheetRun
    /\ InitAnalyzer
    /\ InitHelpers
    /\ InitRanges
    /\ InitRuns
    /\ InitJobs
    /\ InitTimed
    /\ InitRetry
    /\ InitScheduler([s \in {} |-> 0])

NextVerdict ==
    \/ AnalyzeLink
    \/ LaLaunch
    \/ \E code \in ResponseCodes : LaGoto(code)
    \/ \E out \in ScrapeOutcomes : LaPrimary403(out)
    \/ \E pg \in Pages : LaRender(pg)
    \/ \E pg \in Pages : LaReload(pg)
    \/ \E out \in ScrapeOutcomes : LaProxy(out)
    \/ LaThrow
    \/ \E out \in ScrapeOutcomes : LaCatch(out)

SpecVerdict == InitVerdict /\ [][NextVerdict]_vars

\* Everything but the helper under test at rest.
InitRest ==
    /\ InitRedis([u \in {"pro"} |-> u], <<>>, 0)
    /\ InitBullMQ(0)
    /\ InitSheetRun
    /\ InitAnalyzer
    /\ InitRanges
    /\ InitRuns
    /\ InitJobs
    /\ InitTimed
    /\ InitRetry
    /\ InitScheduler([s \in {} |-> 0])

\* Both link classifiers over the matches of one page.
InitRel ==
    /\ InitRest
    /\ fpc = {}
    /\ fout = <<>>
    /\ \E n \in 0..MaxAnchors : \E rels \in [1..n -> Rels] : fin = [links |-> rels]

NextRel ==
    \/ FindTargetLinks
    \/ ExtractLinksFromHtml

SpecRel == InitRel /\ [][NextRel]_vars

\* Both indexability checks over the robots meta tag and the X-Robots-Tag
\* header of one page.
InitRobots ==
    /\ InitRest
    /\ fpc = {}
    /\ fout = <<>>
    /\ \E meta \in Robots, header \in Robots : fin = [meta |-> meta, header |-> header]

NextRobots ==
    \/ CheckIndexability
    \/ CheckIndexabilityFromHtml

SpecRobots == InitRobots /\ [][NextRobots]_vars

\* normalizeTargetDomain over the target strings: an optional scheme, an
\* optional www., a host, an optional path and an optional trailing blank.
InitDomain ==
    /\ InitRest
    /\ fpc = {}
    /\ fout = <<>>
    /\ \E scheme \in Schemes, www \in {<<>>, Www}, host \in Hosts, path \in Paths,
          blank \in Blanks :
         fin = [targetDomain |-> scheme \o www \o host \o path \o blank,
                host |-> host]

NextDomain ==
    \/ NormalizeTargetDomain

SpecDomain == InitDomain /\ [][NextDomain]_vars

\* The create and update requests of the sheet endpoints.
InitRange ==
    /\ InitRest
    /\ InitHelpers

NextRange ==
    \/ \E startCol \in Columns, endCol \in Columns : CreateGoogleSheet(startCol, endCol)
    \/ \E s \in DOMAIN ranges, cols \in OptionalRanges : UpdateGoogleSheet(s, cols[1], cols[2])

SpecRange == InitRange /\ [][NextRange]_vars

\* resetAnalysisStatus over a table with one row per project and kind, each
\* fresh or checked, and workers that write verdicts.
ResetRows(checked) ==
    [l \in 1..4 |->
        LET p == IF l <= 2 THEN 1 ELSE 2
            t == IF l % 2 = 1 THEN "manual" ELSE "google_sheets"
        IN  IF l \in checked THEN CheckedRow(p, t) ELSE FreshRow(p, t)]

InitReset ==
    /\ \E checked \in SUBSET (1..4) :
         InitRedis([u \in {"pro"} |-> u], ResetRows(checked), 0)
    /\ InitBullMQ(0)
    /\ InitSheetRun
    /\ InitAnalyzer
    /\ InitRanges
    /\ InitRuns
    /\ InitJobs
    /\ InitTimed
    /\ InitRetry
    /\ InitScheduler([s \in {} |-> 0])
    /\ fpc = {}
    /\ fin = [rows |-> links]
    /\ fout = <<>>

NextReset ==
    \/ \E projectId \in Projects, type \in LinkTypes : ResetAnalysisStatus(projectId, type)
    \/ \E id \in DOMAIN links, updateData \in UpdateData : UpdateLink(id, updateData)

SpecReset == InitReset /\ [][NextReset]_vars

\* Runs of one sheet that overlap, and the worker that takes their jobs.
InitOverlap ==
    /\ InitRest
    /\ InitHelpers

NextOverlap ==
    \/ \E sheetId \in {1} : RunStart(sheetId)
    \/ \E r \in DOMAIN aruns : RunDelete(r)
    \/ \E r \in DOMAIN aruns : RunCreate(r)
    \/ \E r \in DOMAIN aruns : RunEnqueue(r)
    \/ \E r \in DOMAIN aruns : RunChecking(r)
    \/ \E r \in DOMAIN aruns, status \in {"OK", "Problem"} : RunSave(r, status)
    \/ \E j \in ajobs : JobSave(j)

SpecOverlap == InitOverlap /\ [][NextOverlap]_vars

\* One run over a URL column: read, analyse, write back.
InitWriteBack ==
    /\ InitRest
    /\ fpc = {}
    /\ fout = <<>>
    /\ \E urls \in UrlColumns : fin = [urlColumn |-> urls]

NextWriteBack ==
    \/ ReadSheetData
    \/ \E n \in 0..MaxSheetRows : \E statuses \in [1..n -> {"OK", "Problem"}] : AnalyzeLinks(statuses)
    \/ WriteAnalysisResults

SpecWriteBack == InitWriteBack /\ [][NextWriteBack]_vars

\* The schedule of one sheet, for each interval the sheet can have.
InitTimedRuns ==
    /\ InitRest
    /\ InitHelpers

NextTimed ==
    \/ \E interval \in ScheduleIntervals : ScheduleSheetAt(interval)
    \/ TimerWait
    \/ AnalysisTakesTime
    \/ \E i \in ArmedTimers : ExecuteScheduledAnalysis(i)
    \/ AnalysisChecked
    \/ AnalysisThrows
    \/ Rearm
    \/ RearmWriteFails

SpecTimed == InitTimedRuns /\ [][NextTimed]_vars

\* One call of scrapePageWithRetry for each value SCRAPE_DO_RETRY_ATTEMPTS can
\* give RETRY_ATTEMPTS, with and without an API key.
InitScrape ==
    /\ InitRedis([u \in {"pro"} |-> u], <<>>, 0)
    /\ InitBullMQ(0)
    /\ InitSheetRun
    /\ InitAnalyzer
    /\ InitRanges
    /\ InitRuns
    /\ InitJobs
    /\ InitTimed
    /\ InitHelpers
    /\ InitScheduler([s \in {} |-> 0])
    /\ dpc = "idle"
    /\ dmax \in 0..MaxRetryAttempts
    /\ dkey \in BOOLEAN
    /\ dattempt = 0
    /\ dlog = <<>>
    /\ dret = NoResponse

NextScrape ==
    \/ ScrapePageWithRetry
    \/ \E response \in ProxyResponses : ScrapePage(response)
    \/ Wait

SpecScrape == InitScrape /\ [][NextScrape]_vars

\* A batch of three rows of one project after its reset, a BullMQ job for the
\* first and Redis queue items for the other two.
JobData(type, l) == [type |-> type, projectId |-> 1, linkId |-> l]

InitPersist ==
    /\ InitRedis([u \in {"pro"} |-> u],
                 [l \in 1..3 |-> FreshRow(1, IF l = 3 THEN "google_sheets" ELSE "manual")], 0)
    /\ InitBullMQ(0)
    /\ InitSheetRun
    /\ InitAnalyzer
    /\ InitRanges
    /\ InitRuns
    /\ InitTimed
    /\ InitRetry
    /\ InitHelpers
    /\ InitScheduler([s \in {} |-> 0])
    /\ jbull = {JobData("manual", 1)}
    /\ jitems = {JobData("manual", 2), JobData("google_sheets", 3)}
    /\ jleft = {}
    /\ jevents = {}
    /\ jverdicts = {}

AnalyzerOutcomes == LinkAnalysisResults \cup {Threw, [status |-> "OK"]}

NextPersist ==
    \/ \E job \in jbull, out \in LinkAnalysisResults \cup {Threw}, writeFails \in BOOLEAN : ProcessLinkAnalysisJob(job, out, writeFails)
    \/ \E item \in jitems, out \in AnalyzerOutcomes, writeFails \in BOOLEAN : ProcessNextItem(item, out, writeFails)

SpecPersist == InitPersist /\ [][NextPersist]_vars

\* The batch path over a project that holds rows of both kinds, each with its
\* own URL and a verdict from an earlier analysis.
BatchRows(t) ==
    [l \in DOMAIN t |-> [project |-> 1, type |-> t[l], url |-> l, status |-> "OK"]]

InitBatch ==
    /\ \E t \in [1..BullLinks -> LinkTypes] : InitRedis([u \in {"pro"} |-> u], BatchRows(t), 0)
    /\ InitBullMQ(1)
    /\ InitSheetRun
    /\ InitAnalyzer
    /\ InitHelpers
    /\ InitRanges
    /\ InitRuns
    /\ InitJobs
    /\ InitTimed
    /\ InitRetry
    /\ InitScheduler([s \in {} |-> 0])

SpecBatch == InitBatch /\ [][NextBull]_vars

\* Runs of the sheets of one project; the rows of all of them carry the
\* project's id and the type google_sheets, and no column names the sheet.
NextShared ==
    \/ \E sheetId \in 1..ProjectSheets : RunStart(sheetId)
    \/ \E r \in DOMAIN aruns : RunDelete(r)
    \/ \E r \in DOMAIN aruns : RunCreate(r)
    \/ \E r \in DOMAIN aruns : RunEnqueue(r)
    \/ \E r \in DOMAIN aruns : RunChecking(r)
    \/ \E r \in DOMAIN aruns, status \in {"OK", "Problem"} : RunSave(r, status)
    \/ \E j \in ajobs : JobSave(j)

SpecShared == InitOverlap /\ [][NextShared]_vars

\* ------------------------------------------------------------------ claims
KeyBefore(a, b) ==
    \/ a.priority < b.priority
    \/ a.priority = b.priority /\ a.createdAt < b.createdAt

Apart(a, b) == IF a.createdAt < b.createdAt THEN b.createdAt - a.createdAt
               ELSE a.createdAt - b.createdAt

Held(w) == wpc[w] \in {"popped", "leased", "analysed"}

\* C2: no job is in the hands of two worker loops at once and no job is analysed
\* twice for the same attempt, restarts of other worker containers included.
C2_AtMostOnce ==
    /\ \A v, w \in Workers : v # w /\ Held(v) /\ Held(w) => witem[v].id # witem[w].id
    /\ \A i \in DOMAIN analysed : analysed[i] <= 1

\* C4: a job that has entered the queue is at every moment in the waiting set,
\* in the processing list or among the finished jobs.
C4_NeverAbsent ==
    \A j \in entered : j \in queue \/ j \in Range(processing) \/ j.id \in Range(results)

\* C8: once analysis_completed of a project's run is published, no link_updated
\* of that run is published.
C8_CompletedIsLast ==
    [][\A p \in Projects : emitted[<<p, "analysis_completed">>] > 0
          => emitted'[<<p, "link_updated">>] = emitted[<<p, "link_updated">>]]_vars

\* C3: a job whose processing failed is waiting again with its attempt count
\* raised by one, or it is in the failed (dead-letter) set; it is not simply
\* finished.
C3_FailureRetriedOrDeadLettered ==
    \A j \in DOMAIN bjobs :
        ~bjobs[j].returnvalue.success =>
            \/ bjobs[j].state = "waiting" /\ bjobs[j].attemptsMade >= 1
            \/ bjobs[j].state = "failed"

\* C5: without restarts and failing calls, a project sees at most one of
\* analysis_completed and analysis_error for its one run, however the workers
\* that finish the last jobs interleave.
C5_OneTerminalEvent ==
    (restarts = 0 /\ faults = 0) =>
        \A p \in Projects :
            emitted[<<p, "analysis_completed">>] + emitted[<<p, "analysis_error">>] <= 1

BullQuiet ==
    /\ ppc = "idle"
    /\ \A w \in BSlots : bpc[w] = "idle"
    /\ InState("waiting") = {}
    /\ InState("active") = {}

\* C6: once a run's last job is finished, with no job of the project waiting or
\* active, no row pending or checking and no call having failed,
\* analysis_completed has been emitted for the project.
C6_CompletionDetected ==
    \A p \in Projects :
        (BullQuiet /\ runs[p] > 0 /\ faults = 0 /\ Unprocessed(p, "manual") = {}) =>
            emitted[<<p, "analysis_completed">>] > 0

\* C7: a link-update event of a run is published only after the run's start
\* event, for batch runs and for sheet runs.
C7_StartBeforeUpdates ==
    \A p \in Projects : \A t \in LinkTypes :
        emitted[<<p, UpdateEvent(t)>>] > 0 => emitted[<<p, StartedEvent(t)>>] > 0

\* C9: when a batch run has ended and no analysis or call failed in it, every
\* link of the run has had exactly one OK/Problem write since the run's reset.
C9_OneTerminalWrite ==
    (BullQuiet /\ faults = 0 /\ \A j \in DOMAIN bjobs : bjobs[j].returnvalue.success) =>
        \A i \in DOMAIN plinks : writes[plinks[i]] = 1

C11_JobIdPerProject ==
    (padd.found # "none" /\ padd.id \in DOMAIN bjobs) =>
        bjobs[padd.id].projectId = padd.projectId

\* C12: every job, in the Redis queue and in the BullMQ queue, carries the
\* priority of its user's plan: enterprise 1, pro 2, starter 3, free 4.
C12_PriorityFromPlan ==
    /\ \A q \in queue : q.priority = getUserPriority(users[q.userId])
    /\ \A j \in DOMAIN bjobs : bjobs[j].priority = getUserPriority(users[bjobs[j].userId])

\* C13: the recovery at start-up duplicates no job: a job that a worker holds
\* is not waiting in the queue as well.
C13_RecoveryNoDuplicate ==
    \A w \in Workers : Held(w) => witem[w] \notin queue

\* C14: no sheet has more than one armed timer.
C14_OneTimerPerSheet ==
    \A s \in DOMAIN sheetsDb : Cardinality(ArmedOf(s)) <= 1

\* C15: a sheet that was cancelled and not scheduled since has no armed timer.
C15_CancelDisarms ==
    \A s \in DOMAIN sheetsDb : cancelled[s] => ArmedOf(s) = {}

\* C16: once shutdown has run, a run of executeScheduledAnalysis that ends arms
\* no timer.
C16_ShutdownDisarms ==
    [][(isShuttingDown /\ \E f \in fires : f.pc = "done" /\ f \notin fires')
         => armed' \subseteq armed]_vars

\* C17: when a fire ends in the catch of executeScheduledAnalysis, the timer of
\* its task is not armed.
C17_FailedRunNoRearm ==
    [][\A f \in fires :
          (f.kind # "endpoint" /\ f \notin fires' /\ (f.pc = "failed" \/ faults' > faults))
              => objs'[f.task].timerId \notin armed']_vars

\* C18: the failure of a run is reported by at most one sheets_analysis_error.
C18_OneErrorEvent ==
    \A i \in DOMAIN reported : reported[i] <= 1

\* C19: no ScheduledTask is ever created with the interval manual.
C19_NoManualTask ==
    \A o \in DOMAIN objs : objs[o].interval # "manual"

\* C20: every verdict analyzeLink returns has status Problem exactly when the
\* link is absent (linkType not_found) or the page is not indexable
\* (indexable false), and status OK otherwise, whichever path produced it.
C20_StatusMatchesVerdict ==
    apc = "done" =>
        /\ averdict.status \in {"OK", "Problem"}
        /\ averdict.status = "Problem"
             <=> (averdict.linkType = "not_found" \/ averdict.indexable = FALSE)

\* C21: over the matches of a page the link class is sponsored if any match
\* carries rel sponsored; otherwise ugc if any carries ugc; otherwise nofollow
\* if a match carries nofollow and no match is without nofollow; otherwise
\* dofollow.
C21_ClassPrecedence ==
    ("findTargetLinks" \in fpc /\ Len(fin.links) > 0) =>
        LET Carries(w) == \E i \in DOMAIN fin.links : w \in fin.links[i]
            AllNofollow == \A i \in DOMAIN fin.links : "nofollow" \in fin.links[i]
        IN  fout.findTargetLinks =
                CASE Carries("sponsored") -> "sponsored"
                  [] ~Carries("sponsored") /\ Carries("ugc") -> "ugc"
                  [] ~Carries("sponsored") /\ ~Carries("ugc") /\ AllNofollow -> "nofollow"
                  [] OTHER -> "dofollow"

\* C21 witness: two matches, one ugc and one sponsored, classified sponsored.
C21_Witness ==
    /\ "findTargetLinks" \in fpc
    /\ Len(fin.links) = 2
    /\ "ugc" \in fin.links[1] /\ "sponsored" \notin fin.links[1]
    /\ "sponsored" \in fin.links[2]
    /\ fout.findTargetLinks = "sponsored"

\* C22: for a page whose only match is one anchor, the proxy path returns the
\* link class the direct render returns, for every rel value of the anchor.
C22_ProxySameClass ==
    (fpc = {"findTargetLinks", "extractLinksFromHtml"} /\ Len(fin.links) = 1) =>
        fout.extractLinksFromHtml = fout.findTargetLinks

\* C23: a page is not indexable exactly when its robots meta tag or its
\* X-Robots-Tag header contains noindex or none, on the direct render and on
\* the proxy path.
C23_NoindexOred ==
    LET Noindex(r) == "noindex" \in r \/ "none" \in r
        blocked == Noindex(fin.meta) \/ Noindex(fin.header)
    IN  /\ "checkIndexability" \in fpc => (fout.checkIndexability = FALSE <=> blocked)
        /\ "checkIndexabilityFromHtml" \in fpc
               => (fout.checkIndexabilityFromHtml = FALSE <=> blocked)

\* C24: a verdict that is absent because fetching failed carries a typed
\* reason in nonIndexableReason: blocked for a primary 403 the proxy did not
\* recover, inconclusive for an exception the proxy did not recover.
C24_TypedFailureReason ==
    (apc = "done" /\ averdict.linkType = "not_found") =>
        /\ apath = "primary403" =>
               /\ "nonIndexableReason" \in DOMAIN averdict
               /\ averdict.nonIndexableReason = "blocked"
        /\ apath = "exception" =>
               /\ "nonIndexableReason" \in DOMAIN averdict
               /\ averdict.nonIndexableReason = "inconclusive"

\* C25: the verdict's responseCode is the status of the primary response
\* whenever page.goto returned one, and 0 when there was none and the proxy
\* fallback of the catch produced the verdict.
C25_PrimaryResponseCode ==
    apc = "done" =>
        IF acode # 0
        THEN averdict.responseCode = acode
        ELSE (apath = "exception" /\ averdict.linkType # "not_found")
                 => averdict.responseCode = 0

C27_NormalizedHost ==
    "normalizeTargetDomain" \in fpc
        => fout.normalizeTargetDomain = ToLowerCase(fin.host)

\* C28: every stored sheet has a result range of exactly 5 columns, after any
\* sequence of create and update requests.
C28_RangeIsFiveColumns ==
    \A s \in DOMAIN ranges :
        columnToIndex(ranges[s].result_range_end)
            - columnToIndex(ranges[s].result_range_start) + 1 = 5

\* C29: right after resetAnalysisStatus(project, kind), with no work since,
\* every row of that project and kind is pending with all verdict columns
\* NULL, and every other row is as it was before the call.
C29_ResetClearsOnlyItsRows ==
    "resetAnalysisStatus" \in fpc =>
        \A l \in DOMAIN links :
            IF links[l].project = fin.projectId /\ links[l].type = fin.type
            THEN /\ links[l].status = "pending"
                 /\ \A k \in VerdictColumns : links[l][k] = Null
            ELSE links[l] = fin.rows[l]

\* C29 witness: a reset that cleared a checked row and left a checked row of
\* the same project and the other kind as it was.
C29_Witness ==
    /\ "resetAnalysisStatus" \in fpc
    /\ \E l, o \in DOMAIN links :
         /\ links[l].project = fin.projectId /\ links[l].type = fin.type
         /\ fin.rows[l].status # "pending"
         /\ links[l].status = "pending"
         /\ links[o].project = fin.projectId /\ links[o].type # fin.type
         /\ links[o].status # "pending"

\* C30: no work of a run of a sheet (its inline loop or a job it added)
\* writes to a row that a later run of the sheet created.
C30_NoWriteToLaterRows ==
    \A w \in wlog : w.hit => madeBy[w.row] <= w.run

\* C30 witness: run 1 wrote to a row of its own after run 2 had deleted it
\* and created its rows, and run 2 has written to a row of its own.
C30_Witness ==
    /\ \E w \in wlog : w.run = 1 /\ ~w.hit
    /\ \E w \in wlog : w.run = 2 /\ w.hit /\ madeBy[w.row] = 2
    /\ \E l \in DOMAIN links : madeBy[l] = 2

\* C31: on analyser success the row the worker wrote carries the whole
\* verdict: status, response code, indexable flag, link class, canonical URL,
\* load time, matched anchor HTML and non_indexable_reason of the row equal
\* the verdict's values.
C31_FullVerdictPersisted ==
    \A d \in jleft :
        (d.job.type = "manual" /\ d.success /\ d.row # NoRow) =>
            \A f \in DOMAIN d.result : d.row[ColumnOf[f]] = d.result[f]

\* C32: when processing a job failed (the analyser or the row write raised),
\* the row of its link is Problem with link class not_found once the job has
\* left the queue; it is not left pending or checking.
C32_FailureRecorded ==
    \A d \in jleft :
        (d.job.type = "manual" /\ d.failed /\ d.row # NoRow) =>
            /\ d.row.status = "Problem"
            /\ d.row.link_type = "not_found"

\* C33: the verdict written to result row r is the verdict of the URL read
\* from source row r, also when the URL column has empty or invalid cells
\* between valid ones: every source row with a URL finds its own verdict in
\* its row, and no row receives the verdict of another row's URL.
C33_WriteBackByRow ==
    "writeAnalysisResults" \in fpc =>
        /\ \A r \in 2..Len(fin.urlColumn) :
              isValidUrl(fin.urlColumn[r]) =>
                  r <= Len(fout.values) /\ fout.values[r].url = fin.urlColumn[r]
        /\ \A r \in 2..Len(fout.values) : fout.values[r].url = fin.urlColumn[r]

\* C34: after every successful scheduled fire exactly one timer is armed for
\* the sheet, it is due at the task's nextRun, and the sheet's persisted
\* next_scan is that time, for every interval.
C34_RearmMatchesNextScan ==
    tpc = "rearmed" =>
        /\ Cardinality(ArmedTimers) = 1
        /\ \A i \in ArmedTimers :
              /\ ttimers[i].due = ttask.nextRun
              /\ tsheet.next_scan = ttimers[i].due

\* C35: a call of scrapePageWithRetry makes at most RETRY_ATTEMPTS proxy
\* requests, makes no request after a successful one, waits attempt x 3 s
\* only between two attempts (every wait follows a failed attempt and is
\* followed by the next attempt, none comes after the last attempt), and
\* returns failure exactly when every attempt failed.
C35_RetryDiscipline ==
    LET Attempts == {i \in DOMAIN dlog : dlog[i].kind = "attempt"}
        Requests == {i \in Attempts : dlog[i].request}
        Waits == {i \in DOMAIN dlog : dlog[i].kind = "wait"}
    IN  /\ Cardinality(Requests) <= dmax
        /\ Cardinality(Attempts) <= dmax
        /\ \A i \in Attempts : dlog[i].success => i = Len(dlog)
        /\ \A i \in Waits :
              /\ i > 1 /\ dlog[i - 1].kind = "attempt" /\ ~dlog[i - 1].success
              /\ dlog[i].delay = 3 * dlog[i - 1].attempt
              /\ dlog[i].attempt < dmax
              /\ i < Len(dlog) => dlog[i + 1].kind = "attempt"
              /\ dpc = "done" => i < Len(dlog)
        /\ dpc = "done" =>
              (dret.success = FALSE <=> \A i \in Attempts : ~dlog[i].success)

\* C35 witness: the default two attempts, the first failed, a wait of 3 s, the
\* second succeeded and was returned without another request.
C35_Witness ==
    /\ dpc = "done"
    /\ dmax = RETRY_ATTEMPTS
    /\ Len(dlog) = 3
    /\ dlog[1].kind = "attempt" /\ dlog[1].request /\ ~dlog[1].success
    /\ dlog[2].kind = "wait" /\ dlog[2].delay = 3
    /\ dlog[3].kind = "attempt" /\ dlog[3].success
    /\ dret.success

\* C36: at most one analysis run of a sheet is in progress at any time: a
\* scheduled fire and an analyze request, or two of either, never execute
\* analyzeGoogleSheet for the same sheet concurrently.
C36_OneRunPerSheet ==
    \A s \in DOMAIN sheetsDb :
        Cardinality({f \in fires : f.sheet = s /\ f.pc = "analysing"}) <= 1

\* C37: a run of one sheet never deletes or overwrites a link row that
\* belongs to another sheet of the same project (a row a run of the other
\* sheet created), in particular not while that run is in progress.
C37_OtherSheetsRowsKept ==
    [][\A r \in DOMAIN aruns :
          aruns'[r] # aruns[r] =>
              \A l \in DOMAIN links :
                  (l \notin DOMAIN links' \/ links'[l] # links[l])
                      => aruns[madeBy[l]].sheet = aruns[r].sheet]_vars

\* C38: every link update event (link_updated, sheets_link_updated) carries
\* the status of a verdict the analyser produced for that link; no event
\* reports OK for a link that has not been analysed.
C38_EventsCarryVerdicts ==
    \A e \in jevents :
        \E v \in jverdicts : v.linkId = e.linkId /\ v.result.status = e.status

\* C39: a batch run enqueues one job for each manual link of the project and
\* none for a sheet-kind link: no job is for a google_sheets row, and when
\* startLinkAnalysis has added its jobs without a failure the rows that have a
\* job are the rows it reset to pending, the manual rows.
C39_JobsForManualRowsOnly ==
    /\ \A j \in DOMAIN bjobs : links[bjobs[j].linkId].type = "manual"
    /\ (ppc = "idle" /\ runs[1] = 1 /\ faults = 0) =>
           {bjobs[j].linkId : j \in DOMAIN bjobs}
               = {l \in DOMAIN links : links[l].project = 1 /\ links[l].type = "manual"}

\* C40: whenever a sheet has a ScheduledTask with an armed timer and no run of
\* the sheet is in progress, its persisted status is one getActiveSheets
\* selects (not_started or checked); scheduleSheet on a sheet that is already
\* scheduled does not leave it inactive.
C40_ScheduledSheetIsActive ==
    \A s \in DOMAIN sheetsDb :
        (/\ tasks[s] # 0
         /\ objs[tasks[s]].timerId \in armed
         /\ ~\E f \in fires : f.sheet = s
         /\ ~\E c \in pending : c.sheet = s)
            => sheetsDb[s].status \in {"not_started", "checked"}

====
